---- MODULE Spec2Model ----
(***************************************************************************)
(* Tool-execution orchestration loop of the MCP chatbot backend:           *)
(* ChatOrchestrator.chatWithTools with its helpers, the stream produced by *)
(* LLMService.chatStream, the result normalisation of                      *)
(* MCPService.executeTool and the consumer loop of ChatAPI.chat.           *)
(***************************************************************************)
EXTENDS Integers, Sequences, FiniteSets, TLC

(***************************************************************************)
(* Program constants                                                       *)
(***************************************************************************)
MAX_ITERATIONS == 10
TOOL_EXECUTION_TIMEOUT == 30000

(***************************************************************************)
(* Bounds of the explored environment                                      *)
(***************************************************************************)
\* In every run one turn, chosen freely among the turns of the run, is
\* arbitrary: any stream of at most MaxChunks raw chunks of RichChunks, ended
\* or broken off anywhere, and any provider behaviour of RichResults or a
\* timeout.  The other turns follow the plain path (one call of a known tool,
\* answered in time, without charts), end with an empty final answer or
\* break off with a stream exception.
\* raw chunks the model stream delivers in the arbitrary turn
MaxChunks == 2
\* provider calls of one run that outlive their timer
MaxTimeouts == 1
\* raw chunks of the stream of the accumulator's specification
MaxDeltas == 3
\* content items of a provider result in the executor's specification
MaxItems == 2
\* the longest candidate list handed to the chart detector
MaxRows == 2
\* the chunks one run of the orchestrator yields to the chat API
MaxFrames == 3
\* the calls made to MCPService from outside
MaxCalls == 3
\* the numeric keys of the rows handed to the choice of the Y keys
MaxKeys == 3

(***************************************************************************)
(* Values                                                                  *)
(***************************************************************************)
SafetyMessage == "Maximum tool execution iterations reached. Stopping for safety."
StreamErrors == {"LLM service not configured", "Connection error."}

NoToolCalls == [present |-> FALSE, list |-> <<>>]

\* the caller's request: messages and the tool descriptor list
CallerMessages ==
  << [role |-> "user", content |-> "how many steps",
      tool_calls |-> NoToolCalls, tool_call_id |-> "", nCharts |-> 0] >>
Tools == << [name |-> "t1", serverId |-> "s1"], [name |-> "t2", serverId |-> "s2"] >>

Event(t, c, n, i, e, err) ==
  [type |-> t, content |-> c, toolName |-> n, toolCallId |-> i, isError |-> e, error |-> err]

RECURSIVE Join(_, _)
Join(s, sep) ==
  IF s = <<>> THEN ""
  ELSE IF Len(s) = 1 THEN s[1]
  ELSE s[1] \o sep \o Join(Tail(s), sep)

(***************************************************************************)
(* LLMService.chatStream: what one raw completion chunk makes the          *)
(* generator yield.  A raw chunk is                                        *)
(*   [content, hasToolCalls, tool_calls, finish].                          *)
(***************************************************************************)
chatStream(raw) ==
  (IF raw.content # "" THEN << [type |-> "content", content |-> raw.content, tool_call |-> <<>>, hasToolCall |-> FALSE] >> ELSE <<>>)
  \o (IF raw.hasToolCalls THEN << [type |-> "tool_call", content |-> "", tool_call |-> raw.tool_calls, hasToolCall |-> TRUE] >> ELSE <<>>)
  \o (IF raw.finish THEN << [type |-> "done", content |-> "", tool_call |-> <<>>, hasToolCall |-> FALSE] >> ELSE <<>>)

(***************************************************************************)
(* accumulateStreamingResponse: merge of one tool-call delta into the      *)
(* buffer.  The buffer is the Map in insertion order: a sequence of        *)
(* [index, id, hasFunction, name, arguments]; "" is an absent field.       *)
(***************************************************************************)
EmptyEntry(idx) == [index |-> idx, id |-> "", hasFunction |-> FALSE, name |-> "", arguments |-> ""]

BufferPos(buf, idx) ==
  IF \E i \in 1..Len(buf) : buf[i].index = idx
  THEN CHOOSE i \in 1..Len(buf) : buf[i].index = idx
  ELSE 0

\* the arguments fragment overwrites what was accumulated
MergeEntryOverwrites(existing, delta) ==
  LET e1 == IF delta.id # "" THEN [existing EXCEPT !.id = delta.id] ELSE existing
      e2 == IF delta.name # ""
            THEN [e1 EXCEPT !.hasFunction = TRUE, !.name = delta.name]
            ELSE e1
      e3 == IF delta.arguments # ""
            THEN [e2 EXCEPT !.hasFunction = TRUE, !.arguments = delta.arguments]
            ELSE e2
  IN e3

\* the id and the name of the delta are assigned without a test
MergeEntryAssigns(existing, delta) ==
  LET e1 == [existing EXCEPT !.id = delta.id]
      e2 == [e1 EXCEPT !.hasFunction = TRUE, !.name = delta.name]
      e3 == IF delta.arguments # ""
            THEN [e2 EXCEPT !.arguments = e2.arguments \o delta.arguments]
            ELSE e2
  IN e3

MergeEntry(existing, delta) ==
  LET e1 == IF delta.id # "" THEN [existing EXCEPT !.id = delta.id] ELSE existing
      e2 == IF delta.name # ""
            THEN [e1 EXCEPT !.hasFunction = TRUE, !.name = delta.name]
            ELSE e1
      e3 == IF delta.arguments # ""
            THEN [e2 EXCEPT !.hasFunction = TRUE, !.arguments = e2.arguments \o delta.arguments]
            ELSE e2
  IN e3

\* a new entry is put where its index belongs in ascending order
MergeDeltaByIndex(buf, delta) ==
  LET p == BufferPos(buf, delta.index)
      lower == SelectSeq(buf, LAMBDA e : e.index < delta.index)
      higher == SelectSeq(buf, LAMBDA e : e.index > delta.index)
  IN IF p = 0
     THEN lower \o << MergeEntry(EmptyEntry(delta.index), delta) >> \o higher
     ELSE [buf EXCEPT ![p] = MergeEntry(buf[p], delta)]

MergeDelta(buf, delta) ==
  LET p == BufferPos(buf, delta.index)
  IN IF p = 0
     THEN Append(buf, MergeEntry(EmptyEntry(delta.index), delta))
     ELSE [buf EXCEPT ![p] = MergeEntry(buf[p], delta)]

RECURSIVE MergeDeltas(_, _)
MergeDeltas(buf, deltas) ==
  IF deltas = <<>> THEN buf
  ELSE MergeDeltas(MergeDelta(buf, Head(deltas)), Tail(deltas))

\* the filter tests the id only
RECURSIVE MaterializeIdOnly(_)
MaterializeIdOnly(buf) ==
  IF buf = <<>> THEN <<>>
  ELSE LET tc == Head(buf)
       IN (IF tc.id # ""
           THEN << [id |-> tc.id, name |-> tc.name,
                    arguments |-> IF tc.arguments # "" THEN tc.arguments ELSE "{}"] >>
           ELSE <<>>) \o MaterializeIdOnly(Tail(buf))

\* lines 243-253: entries with an id and a function name become tool calls
RECURSIVE Materialize(_)
Materialize(buf) ==
  IF buf = <<>> THEN <<>>
  ELSE LET tc == Head(buf)
       IN (IF tc.id # "" /\ tc.hasFunction /\ tc.name # ""
           THEN << [id |-> tc.id, name |-> tc.name,
                    arguments |-> IF tc.arguments # "" THEN tc.arguments ELSE "{}"] >>
           ELSE <<>>) \o Materialize(Tail(buf))

\* the list is attached whatever its length
AssistantMessageAlwaysList(content, toolCalls) ==
  [role |-> "assistant", content |-> content,
   tool_calls |-> [present |-> TRUE, list |-> toolCalls],
   tool_call_id |-> "", nCharts |-> 0]

\* lines 255-260
AssistantMessage(content, toolCalls) ==
  [role |-> "assistant", content |-> content,
   tool_calls |-> IF Len(toolCalls) > 0 THEN [present |-> TRUE, list |-> toolCalls] ELSE NoToolCalls,
   tool_call_id |-> "", nCharts |-> 0]

(***************************************************************************)
(* executeToolCall, lines 300-342                                          *)
(***************************************************************************)
\* JSON.parse on the argument texts the model stream can assemble
JsonParses(s) == s \in {"{}", "{\"a\":1}"}

FindTool(tools, toolName) ==
  IF \E i \in 1..Len(tools) : tools[i].name = toolName
  THEN LET i == CHOOSE i \in 1..Len(tools) :
                  /\ tools[i].name = toolName
                  /\ \A j \in 1..(i-1) : tools[j].name # toolName
       IN [found |-> TRUE, serverId |-> tools[i].serverId]
  ELSE [found |-> FALSE, serverId |-> ""]

(***************************************************************************)
(* JSON values as the code sees them.  A value is [t, v]: t is what        *)
(* typeof, Array.isArray and the null test tell apart, v the number, the   *)
(* string, the items of an array or the fields [k, val] of an object in    *)
(* key order.  Object keys that look like integers are only those that     *)
(* Object.entries gives an array.                                          *)
(***************************************************************************)
Num(n) == [t |-> "number", v |-> n]
Str(x) == [t |-> "string", v |-> x]
Arr(xs) == [t |-> "array", v |-> xs]
Obj(fs) == [t |-> "object", v |-> fs]
Null == [t |-> "null", v |-> <<>>]
Undefined == [t |-> "undefined", v |-> <<>>]
\* JSON.parse threw
Invalid == [t |-> "invalid", v |-> <<>>]
Field(key, val) == [k |-> key, val |-> val]

Truthy(val) ==
  CASE val.t \in {"null", "undefined", "invalid"} -> FALSE
    [] val.t = "number" -> val.v # 0
    [] val.t = "string" -> val.v # ""
    [] OTHER -> TRUE

\* item[key]
Get(item, key) ==
  IF item.t = "object" /\ \E i \in 1..Len(item.v) : item.v[i].k = key
  THEN item.v[CHOOSE i \in 1..Len(item.v) : item.v[i].k = key].val
  ELSE Undefined

\* obj[key] = val: an existing key keeps its place in the key order
SetField(fs, key, val) ==
  IF \E i \in 1..Len(fs) : fs[i].k = key
  THEN [fs EXCEPT ![CHOOSE i \in 1..Len(fs) : fs[i].k = key] = Field(key, val)]
  ELSE Append(fs, Field(key, val))

\* Object.entries and Object.keys
Entries(item) ==
  IF item.t = "array" THEN [i \in 1..Len(item.v) |-> Field(ToString(i - 1), item.v[i])]
  ELSE item.v
Keys(item) == [i \in 1..Len(Entries(item)) |-> Entries(item)[i].k]

\* JSON.stringify(value, null, 2)
RECURSIVE Stringify(_, _)
Stringify(val, indent) ==
  LET inner == indent \o "  "
  IN CASE val.t = "number" -> ToString(val.v)
       [] val.t = "string" -> "\"" \o val.v \o "\""
       [] val.t = "array" ->
            IF val.v = <<>> THEN "[]"
            ELSE "[\n"
                 \o Join([i \in 1..Len(val.v) |-> inner \o Stringify(val.v[i], inner)], ",\n")
                 \o "\n" \o indent \o "]"
       [] val.t = "object" ->
            IF val.v = <<>> THEN "{}"
            ELSE "{\n"
                 \o Join([i \in 1..Len(val.v) |->
                           inner \o "\"" \o val.v[i].k \o "\": " \o Stringify(val.v[i].val, inner)],
                         ",\n")
                 \o "\n" \o indent \o "}"
       [] OTHER -> "null"

\* JSON.parse of the texts the executor and the plain provider produce; the
\* text of any other item comes with what it parses to
ParseText(text) == IF text = "42" THEN Num(42) ELSE Invalid

(***************************************************************************)
(* MCPService.executeTool                                                  *)
(***************************************************************************)
\* a content item: type, text and data as the provider sent them, and json,
\* what JSON.parse(text) gives
TextItem(t) == [type |-> "text", text |-> t, data |-> Undefined, json |-> ParseText(t)]

\* the status of the connection is not looked at
ExecuteToolPrecheckAnyStatus(conns, serverId) ==
  IF serverId \notin DOMAIN conns THEN "MCP server " \o serverId \o " not found" ELSE ""

\* the checks made before the provider is called; "" when they pass
ExecuteToolPrecheck(conns, serverId) ==
  IF serverId \notin DOMAIN conns THEN "MCP server " \o serverId \o " not found"
  ELSE IF conns[serverId] # "connected"
       THEN "MCP server '" \o serverId \o "' is not connected (status: " \o conns[serverId] \o ")"
       ELSE ""

\* no item is filtered out
ValidItemsUnfiltered(items) == items

ValidItems(items) == SelectSeq(items, LAMBDA it : it.type # "")

\* the ToolResult returned for what the provider's callTool produced:
\* raw = [outcome: "returns"|"throws", shape: "missing"|"nonArray"|"list",
\*        items, isError: "true"|"false"|"absent"]
\* Boolean(result.isError), line 521
ToBoolean(v) == v = "true"

\* the empty content list reported as an error
NormalizeResultEmptyIsError(toolName, raw) ==
  IF raw.outcome = "throws"
  THEN [content |-> << TextItem("Error calling tool '" \o toolName \o "'") >>, isError |-> TRUE]
  ELSE IF raw.shape = "missing"
  THEN [content |-> << TextItem("Tool '" \o toolName \o "' returned invalid response: missing 'content' field.") >>, isError |-> TRUE]
  ELSE IF raw.shape = "nonArray"
  THEN [content |-> << TextItem("Tool '" \o toolName \o "' returned invalid response: 'content' must be an array") >>, isError |-> TRUE]
  ELSE IF Len(raw.items) = 0
  THEN [content |-> << TextItem("Tool '" \o toolName \o "' returned no data.") >>, isError |-> TRUE]
  ELSE IF Len(ValidItems(raw.items)) = 0
  THEN [content |-> << TextItem("Tool '" \o toolName \o "' returned invalid content items.") >>, isError |-> TRUE]
  ELSE [content |-> ValidItems(raw.items), isError |-> ToBoolean(raw.isError)]

NormalizeResult(toolName, raw) ==
  IF raw.outcome = "throws"
  THEN [content |-> << TextItem("Error calling tool '" \o toolName \o "'") >>, isError |-> TRUE]
  ELSE IF raw.shape = "missing"
  THEN [content |-> << TextItem("Tool '" \o toolName \o "' returned invalid response: missing 'content' field.") >>, isError |-> TRUE]
  ELSE IF raw.shape = "nonArray"
  THEN [content |-> << TextItem("Tool '" \o toolName \o "' returned invalid response: 'content' must be an array") >>, isError |-> TRUE]
  ELSE IF Len(raw.items) = 0
  THEN [content |-> << TextItem("Tool '" \o toolName \o "' returned no data.") >>, isError |-> FALSE]
  ELSE IF Len(ValidItems(raw.items)) = 0
  THEN [content |-> << TextItem("Tool '" \o toolName \o "' returned invalid content items.") >>, isError |-> TRUE]
  ELSE [content |-> ValidItems(raw.items), isError |-> ToBoolean(raw.isError)]

(***************************************************************************)
(* formatToolResult                                                        *)
(***************************************************************************)
FormatItem(item) ==
  IF item.type = "text" /\ item.text # "" THEN item.text
  ELSE IF Truthy(item.data) THEN Stringify(item.data, "")
  ELSE ""

RECURSIVE MapFormat(_)
MapFormat(items) ==
  IF items = <<>> THEN <<>> ELSE << FormatItem(Head(items)) >> \o MapFormat(Tail(items))

formatToolResult(result) ==
  Join(SelectSeq(MapFormat(result.content), LAMBDA s : s # ""), "\n\n")

(***************************************************************************)
(* The regular expressions of the chart detector, each named by its source *)
(* text and given by the strings it matches among the keys date, steps,    *)
(* totalSteps, dailySteps, heartRate, restingHeartRate, name, value, id,   *)
(* stats, 0, 1, the queries "how many steps", "my heart rate", "" and the  *)
(* tool names t1, t2, tx, get_steps_data                                   *)
(***************************************************************************)
MatchSet(pattern) ==
  CASE pattern = "steps" ->
         {"steps", "totalSteps", "dailySteps", "how many steps", "get_steps_data"}
    [] pattern = "heart.*rate" -> {"my heart rate", "heartRate", "restingHeartRate"}
    [] pattern = "^restingHeartRate$" -> {"restingHeartRate"}
    [] pattern = "^heartRate$" -> {"heartRate"}
    [] pattern = "date|time|timestamp|day|month|year" -> {"date"}
    [] pattern = "Id$" -> {"id"}
    [] pattern = "^id$" -> {"id"}
    [] pattern = "^totalSteps$" -> {"totalSteps"}
    [] OTHER -> {}

Test(pattern, s) == s \in MatchSet(pattern)
SomeTest(patterns, s) == \E i \in 1..Len(patterns) : Test(patterns[i], s)

\* a.localeCompare(b) < 0 on the keys
KeyOrder ==
  << "0", "1", "dailySteps", "date", "heartRate", "id", "name", "restingHeartRate",
     "stats", "steps", "totalSteps", "value" >>
Rank(key) == CHOOSE i \in 1..Len(KeyOrder) : KeyOrder[i] = key

\* lines 504-515, in the order of Object.entries
metricPatterns ==
  << [metric |-> "steps", patterns |-> << "steps", "walked", "walking" >>],
     [metric |-> "heart_rate", patterns |-> << "heart.*rate", "hr\\b", "pulse", "bpm" >>],
     [metric |-> "calories", patterns |-> << "calories", "kcal", "burned" >>],
     [metric |-> "distance", patterns |-> << "distance", "miles", "kilometers", "km\\b" >>],
     [metric |-> "stress", patterns |-> << "stress", "anxiety" >>],
     [metric |-> "sleep", patterns |-> << "sleep", "asleep", "sleeping" >>],
     [metric |-> "battery", patterns |-> << "battery", "energy" >>],
     [metric |-> "floors", patterns |-> << "floors", "climbed", "stairs" >>],
     [metric |-> "spo2", patterns |-> << "spo2", "oxygen", "o2" >>],
     [metric |-> "respiration", patterns |-> << "respiration", "breathing", "breath" >> ] >>

singleMetricPriority ==
  << "^totalSteps$", "^restingHeartRate$", "^heartRate$", "^averageStressLevel$",
     "^totalCalories$", "^totalDistance" >>

excludePatterns ==
  << "Id$", "^id$", "profile", "duration.*milliseconds", "version", "goal", "constant" >>

priorityPatterns ==
  << "steps", "calories", "heart.*rate", "distance", "stress", "battery", "spo2",
     "respiration", "sleep", "floors", "active.*seconds" >>

datePattern == "date|time|timestamp|day|month|year"

\* findIndex: the position, from 0, of the first pattern matching s, or -1
FindIndex(patterns, s) ==
  IF SomeTest(patterns, s)
  THEN (CHOOSE i \in 1..Len(patterns) :
          /\ Test(patterns[i], s)
          /\ \A j \in 1..(i - 1) : ~Test(patterns[j], s)) - 1
  ELSE -1

\* s.replace(/_/g, ' ').replace(/\b\w/g, c => c.toUpperCase())
TitleCase(s) ==
  CASE s = "steps" -> "Steps"
    [] s = "totalSteps" -> "TotalSteps"
    [] s = "value" -> "Value"
    [] s = "date" -> "Date"
    [] s = "name" -> "Name"
    [] s = "id" -> "Id"
    [] s = "stats" -> "Stats"
    [] s = "t1" -> "T1"
    [] s = "t2" -> "T2"
    [] s = "tx" -> "Tx"
    [] s = "get_steps_data" -> "Get Steps Data"
    [] OTHER -> s

(***************************************************************************)
(* flattenNestedArrayData, lines 461-491                                   *)
(***************************************************************************)
\* the scalar fields of a nested object are hoisted
RECURSIVE HoistScalars(_, _)
HoistScalars(nested, flattened) ==
  IF nested = <<>> THEN flattened
  ELSE HoistScalars(Tail(nested),
         IF Head(nested).val.t \notin {"object", "array"}
         THEN SetField(flattened, Head(nested).k, Head(nested).val)
         ELSE flattened)

RECURSIVE FlattenEntries(_, _)
FlattenEntries(entries, flattened) ==
  IF entries = <<>> THEN flattened
  ELSE FlattenEntries(Tail(entries),
         IF Head(entries).val.t = "object"
         THEN HoistScalars(Head(entries).val.v, flattened)
         ELSE SetField(flattened, Head(entries).k, Head(entries).val))

FlattenItem(item) ==
  IF item.t \notin {"object", "array"} THEN item
  ELSE Obj(FlattenEntries(Entries(item), <<>>))

flattenNestedArrayData(data) ==
  IF Len(data) = 0 THEN data ELSE [i \in 1..Len(data) |-> FlattenItem(data[i])]

(***************************************************************************)
(* filterChartableNumericFields, lines 583-631                             *)
(***************************************************************************)
\* the comparator of the sort is negative
SortsBefore(a, b) ==
  LET aPriority == FindIndex(priorityPatterns, a)
      bPriority == FindIndex(priorityPatterns, b)
  IN IF aPriority # -1 /\ bPriority # -1 THEN aPriority < bPriority
     ELSE IF aPriority # -1 THEN TRUE
     ELSE IF bPriority # -1 THEN FALSE
     ELSE Rank(a) < Rank(b)

\* Array.prototype.sort is stable
InsertSorted(sorted, key) ==
  IF \E i \in 1..Len(sorted) : SortsBefore(key, sorted[i])
  THEN LET p == CHOOSE i \in 1..Len(sorted) :
                  /\ SortsBefore(key, sorted[i])
                  /\ \A j \in 1..(i - 1) : ~SortsBefore(key, sorted[j])
       IN SubSeq(sorted, 1, p - 1) \o << key >> \o SubSeq(sorted, p, Len(sorted))
  ELSE Append(sorted, key)

RECURSIVE SortKeys(_)
SortKeys(keys) ==
  IF keys = <<>> THEN <<>>
  ELSE InsertSorted(SortKeys(SubSeq(keys, 1, Len(keys) - 1)), keys[Len(keys)])

\* no key is left out
filterChartableNumericFieldsKeepsAll(numericKeys, toolName) == SortKeys(numericKeys)

filterChartableNumericFields(numericKeys, toolName) ==
  SortKeys(SelectSeq(numericKeys, LAMBDA key : ~SomeTest(excludePatterns, key)))

(***************************************************************************)
(* selectRelevantMetrics, lines 502-574                                    *)
(***************************************************************************)
\* the first metric one of whose patterns matches s; 0 when there is none
FirstMetric(s) ==
  IF \E i \in 1..Len(metricPatterns) : SomeTest(metricPatterns[i].patterns, s)
  THEN CHOOSE i \in 1..Len(metricPatterns) :
         /\ SomeTest(metricPatterns[i].patterns, s)
         /\ \A j \in 1..(i - 1) : ~SomeTest(metricPatterns[j].patterns, s)
  ELSE 0

FirstTwo(keys) == SubSeq(keys, 1, IF Len(keys) < 2 THEN Len(keys) ELSE 2)

\* the tool name looked at before the query
selectRelevantMetricsToolFirst(numericKeys, toolName, userQuery) ==
  LET requestedMetric ==
        IF FirstMetric(toolName) # 0 THEN FirstMetric(toolName) ELSE FirstMetric(userQuery)
      matchingKeys ==
        IF requestedMetric = 0 THEN <<>>
        ELSE SelectSeq(numericKeys,
               LAMBDA key : SomeTest(metricPatterns[requestedMetric].patterns, key))
      primary ==
        SelectSeq(singleMetricPriority,
                  LAMBDA p : \E i \in 1..Len(numericKeys) : Test(p, numericKeys[i]))
  IN IF Len(matchingKeys) > 0 THEN FirstTwo(matchingKeys)
     ELSE IF Len(primary) > 0
     THEN << SelectSeq(numericKeys, LAMBDA key : Test(primary[1], key))[1] >>
     ELSE << numericKeys[1] >>

selectRelevantMetrics(numericKeys, toolName, userQuery) ==
  LET requestedMetric ==
        IF FirstMetric(userQuery) # 0 THEN FirstMetric(userQuery) ELSE FirstMetric(toolName)
      matchingKeys ==
        IF requestedMetric = 0 THEN <<>>
        ELSE SelectSeq(numericKeys,
               LAMBDA key : SomeTest(metricPatterns[requestedMetric].patterns, key))
      primary ==
        SelectSeq(singleMetricPriority,
                  LAMBDA p : \E i \in 1..Len(numericKeys) : Test(p, numericKeys[i]))
  IN IF Len(matchingKeys) > 0 THEN FirstTwo(matchingKeys)
     ELSE IF Len(primary) > 0
     THEN << SelectSeq(numericKeys, LAMBDA key : Test(primary[1], key))[1] >>
     ELSE << numericKeys[1] >>

(***************************************************************************)
(* determineChartType, generateChartTitle, generateChartColors,            *)
(* generateLabels, lines 770-843.  No value of JSON data is a Date.        *)
(***************************************************************************)
\* the test of the name of the X key left out
determineChartTypeByValue(data, xKey, yKeys) ==
  IF Get(data[1], xKey).t = "number" THEN "line" ELSE "bar"

\* a line instead of bars for an X key that is no date
determineChartTypeLineByDefault(data, xKey, yKeys) ==
  IF Test(datePattern, xKey) THEN "area" ELSE "line"

determineChartType(data, xKey, yKeys) ==
  IF Test(datePattern, xKey) THEN "area"
  ELSE IF Get(data[1], xKey).t = "number" THEN "line"
  ELSE "bar"

generateChartTitle(toolName, yKeys) ==
  Join([i \in 1..Len(yKeys) |-> TitleCase(yKeys[i])], ", ") \o " - " \o TitleCase(toolName)

palette == << "#00D9FF", "#7B2CBF", "#39FF14", "#FFD60A", "#FF206E" >>
generateChartColors(count) == [i \in 1..count |-> palette[((i - 1) % Len(palette)) + 1]]

generateLabels(keys) == [i \in 1..Len(keys) |-> Field(keys[i], TitleCase(keys[i]))]

(***************************************************************************)
(* analyzeDataForChart, lines 647-728: no chart, <<>>, or one chart.  id   *)
(* is what Date.now() and Math.random() give at line 712.                  *)
(***************************************************************************)
HoldsEverywhere(data, key, type) == \A i \in 1..Len(data) : Get(data[i], key).t = type

\* the test of the length written < 1
analyzeDataForChartFromOneRecord(data, toolName, userQuery, id) ==
  IF Len(data) < 1 THEN <<>>
  ELSE IF \E i \in 1..Len(data) : data[i].t # "object" THEN <<>>
  ELSE LET keys == Keys(data[1])
           numericKeys == SelectSeq(keys, LAMBDA key : HoldsEverywhere(data, key, "number"))
           filteredNumericKeys == filterChartableNumericFields(numericKeys, toolName)
           stringKeys == SelectSeq(keys, LAMBDA key : HoldsEverywhere(data, key, "string"))
           dateKeys == SelectSeq(stringKeys, LAMBDA key : Test(datePattern, key))
           xKey == IF Len(dateKeys) > 0 THEN dateKeys[1] ELSE stringKeys[1]
           yKeys == selectRelevantMetrics(filteredNumericKeys, toolName, userQuery)
       IN IF Len(keys) < 2 THEN <<>>
          ELSE IF Len(numericKeys) = 0 THEN <<>>
          ELSE IF Len(filteredNumericKeys) = 0 THEN <<>>
          ELSE IF Len(stringKeys) = 0 THEN <<>>
          ELSE << [id |-> id,
                   type |-> determineChartType(data, xKey, yKeys),
                   title |-> generateChartTitle(toolName, yKeys),
                   data |-> data,
                   config |-> [xKey |-> xKey, yKeys |-> yKeys,
                               colors |-> generateChartColors(Len(yKeys)),
                               labels |-> generateLabels(yKeys)]] >>

analyzeDataForChart(data, toolName, userQuery, id) ==
  IF Len(data) < 2 THEN <<>>
  ELSE IF \E i \in 1..Len(data) : data[i].t # "object" THEN <<>>
  ELSE LET keys == Keys(data[1])
           numericKeys == SelectSeq(keys, LAMBDA key : HoldsEverywhere(data, key, "number"))
           filteredNumericKeys == filterChartableNumericFields(numericKeys, toolName)
           stringKeys == SelectSeq(keys, LAMBDA key : HoldsEverywhere(data, key, "string"))
           dateKeys == SelectSeq(stringKeys, LAMBDA key : Test(datePattern, key))
           xKey == IF Len(dateKeys) > 0 THEN dateKeys[1] ELSE stringKeys[1]
           yKeys == selectRelevantMetrics(filteredNumericKeys, toolName, userQuery)
       IN IF Len(keys) < 2 THEN <<>>
          ELSE IF Len(numericKeys) = 0 THEN <<>>
          ELSE IF Len(filteredNumericKeys) = 0 THEN <<>>
          ELSE IF Len(stringKeys) = 0 THEN <<>>
          ELSE << [id |-> id,
                   type |-> determineChartType(data, xKey, yKeys),
                   title |-> generateChartTitle(toolName, yKeys),
                   data |-> data,
                   config |-> [xKey |-> xKey, yKeys |-> yKeys,
                               colors |-> generateChartColors(Len(yKeys)),
                               labels |-> generateLabels(yKeys)]] >>

(***************************************************************************)
(* detectChartsInToolResult, lines 376-449.  stamp stands for the time and *)
(* the random draws of the call: no two calls have the same.               *)
(***************************************************************************)
ChartId(stamp, j) == "chart-" \o ToString(stamp) \o "-" \o ToString(j)

\* the arrays looked at in a value: the value itself or the array
\* properties of an object, in key order
ListsOf(val) ==
  IF val.t = "array" THEN << val.v >>
  ELSE IF val.t = "object"
  THEN LET arrays == SelectSeq(val.v, LAMBDA f : f.val.t = "array")
       IN [i \in 1..Len(arrays) |-> arrays[i].val.v]
  ELSE <<>>

\* lines 391-445 for one content item
CandidateLists(item) ==
  ListsOf(item.data) \o (IF item.text # "" THEN ListsOf(item.json) ELSE <<>>)

RECURSIVE AllCandidateLists(_)
AllCandidateLists(items) ==
  IF items = <<>> THEN <<>>
  ELSE CandidateLists(Head(items)) \o AllCandidateLists(Tail(items))

RECURSIVE AnalyzeLists(_, _, _, _, _)
AnalyzeLists(lists, j, toolName, userQuery, stamp) ==
  IF j > Len(lists) THEN <<>>
  ELSE analyzeDataForChart(flattenNestedArrayData(lists[j]), toolName, userQuery,
                           ChartId(stamp, j))
       \o AnalyzeLists(lists, j + 1, toolName, userQuery, stamp)

\* the isError test left out
detectChartsIgnoringError(result, toolName, userQuery, stamp) ==
  AnalyzeLists(AllCandidateLists(result.content), 1, toolName, userQuery, stamp)

detectChartsInToolResult(result, toolName, userQuery, stamp) ==
  IF result.isError THEN <<>>
  ELSE AnalyzeLists(AllCandidateLists(result.content), 1, toolName, userQuery, stamp)

(***************************************************************************)
(* The environment's inputs                                                *)
(***************************************************************************)
Delta(idx, id, name, args) == [index |-> idx, id |-> id, name |-> name, arguments |-> args]

RawChunk(c, has, deltas, fin) ==
  [content |-> c, hasToolCalls |-> has, tool_calls |-> deltas, finish |-> fin]

PlainChunk == RawChunk("", TRUE, << Delta(0, "c1", "t1", "{}") >>, FALSE)

RichChunks ==
  { RawChunk("Hi", FALSE, <<>>, FALSE),
    PlainChunk,
    RawChunk("", TRUE, << Delta(0, "c1", "t1", "{") >>, FALSE),
    RawChunk("", TRUE, << Delta(0, "c1", "tx", "{}") >>, FALSE),
    RawChunk("", TRUE, << Delta(1, "c2", "t2", "") >>, FALSE),
    RawChunk("", TRUE, << Delta(1, "", "t1", "{}") >>, FALSE),
    RawChunk("ok", TRUE, << Delta(0, "c1", "t1", "{}"), Delta(1, "c2", "t1", "{}") >>, TRUE) }

\* the deltas of the accumulator's specification: for each of two indexes
\* the empty delta, one field alone, id and name, and a full first delta
AccumulatorDeltas ==
  UNION { { Delta(i, "", "", ""),
            Delta(i, "c1", "", ""), Delta(i, "c2", "", ""),
            Delta(i, "", "t1", ""), Delta(i, "", "t2", ""),
            Delta(i, "", "", "{"), Delta(i, "", "", "}"),
            Delta(i, "c1", "t1", ""),
            Delta(i, "c1", "t1", "{"), Delta(i, "c2", "t2", "{") } : i \in {0, 1} }

AccumulatorChunks ==
  { RawChunk("Hi", FALSE, <<>>, FALSE) }
  \cup { RawChunk("", TRUE, << d >>, FALSE) : d \in AccumulatorDeltas }

RawResult(o, sh, items, e) == [outcome |-> o, shape |-> sh, items |-> items, isError |-> e]

StepsRows ==
  << Obj(<< Field("date", Str("2024-01-01")), Field("steps", Num(100)) >>),
     Obj(<< Field("date", Str("2024-01-02")), Field("steps", Num(200)) >>) >>

\* a text item whose JSON text holds n lists of chartable rows: the list
\* itself, or an object with n array properties
ChartItem(n) ==
  [type |-> "text", text |-> "[rows]", data |-> Undefined,
   json |-> IF n = 1 THEN Arr(StepsRows)
            ELSE Obj([i \in 1..n |-> Field(IF i = 1 THEN "name" ELSE "value", Arr(StepsRows))])]
UntypedItem == [type |-> "", text |-> "x", data |-> Undefined, json |-> Invalid]

PlainResult == RawResult("returns", "list", << TextItem("42") >>, "false")

RichResults ==
  { PlainResult,
    RawResult("returns", "list", << UntypedItem, ChartItem(2) >>, "false"),
    RawResult("returns", "list", << ChartItem(1) >>, "true"),
    RawResult("returns", "list", <<>>, "false"),
    RawResult("throws", "missing", <<>>, "absent") }

\* every provider behaviour with at most MaxItems content items
ItemLists(n) == UNION { [1..k -> {TextItem("42"), UntypedItem, ChartItem(1)}] : k \in 0..n }

RawResults ==
  { RawResult("throws", "missing", <<>>, "absent") }
  \cup { RawResult("returns", sh, <<>>, e) :
           sh \in {"missing", "nonArray"}, e \in {"true", "absent"} }
  \cup { RawResult("returns", "list", items, e) :
           items \in ItemLists(MaxItems), e \in {"true", "false", "absent"} }

\* the single tool call and the connection maps of the executor's specification
ExecutorCalls ==
  { [id |-> "c1", name |-> n, arguments |-> a] :
      n \in {"t1", "t2", "tx"}, a \in {"{}", "{", "{\"a\":1}"} }

Statuses == {"connecting", "connected", "error"}
ConnectionMaps == [{"s1", "s2"} -> Statuses] \cup [{"s1"} -> Statuses]

(***************************************************************************)
(* State                                                                   *)
(***************************************************************************)
VARIABLES
  pc,                  \* position of the chatWithTools generator
  iteration,
  continueLoop,
  conversationHistory,
  events,              \* everything the generator has yielded, in order
  contentBuffer,       \* accumulateStreamingResponse locals
  toolCallsBuffer,
  finishReason,
  toolCalls,           \* the turn's materialized tool calls
  toolIdx,             \* position of the for loop over toolCalls
  result,              \* the ToolResult of the call being processed
  detectedCharts,
  chartIdx,
  awaited,             \* positions of toolCalls whose execution the loop awaits
  abandoned,           \* provider calls still running after their timer fired
  connections,         \* MCPService.connections: serverId -> status
  clientConnected,     \* the HTTP client of ChatAPI.chat is still there
  nChunks,             \* raw chunks received in this turn
  rich,                \* this turn is the arbitrary one
  richUsed,            \* the arbitrary turn has been opened
  timeouts,
  outcomes,            \* history: how each executed tool call ended
  turnBase,            \* history: Len(events) when the turn was opened
  delivered,           \* history: the raw chunks a recorded stream delivered
  dispatches,          \* history: the provider calls made, in order
  heap,                \* message arrays by reference, for runs side by side
  runs,                \* the chatWithTools generators running side by side
  turns,               \* history: how each turn of each such run ended
  detector,            \* a chart detection on its own: input and calls made
  api,                 \* one request to ChatAPI.chat and its response
  mcp                  \* MCPService: the connections map and the calls in flight

vars ==
  << pc, iteration, continueLoop, conversationHistory, events, contentBuffer,
     toolCallsBuffer, finishReason, toolCalls, toolIdx, result, detectedCharts,
     chartIdx, awaited, abandoned, connections, clientConnected, nChunks, rich,
     richUsed, timeouts, outcomes, turnBase, delivered, dispatches, heap, runs,
     turns, detector, api, mcp >>

accVars == << contentBuffer, toolCallsBuffer, finishReason >>
toolVars == << toolCalls, toolIdx, result, detectedCharts, chartIdx >>
envVars == << connections, clientConnected >>
boundVars == << nChunks, rich, richUsed, timeouts >>
serviceVars == << api, mcp >>
sideVars == << heap, runs, turns, detector, serviceVars >>
auxVars == << delivered, sideVars >>
chatVars ==
  << pc, iteration, continueLoop, conversationHistory, events, contentBuffer,
     toolCallsBuffer, finishReason, toolCalls, toolIdx, result, detectedCharts,
     chartIdx, awaited, abandoned, connections, clientConnected, nChunks, rich,
     richUsed, timeouts, outcomes, turnBase, delivered, dispatches >>

\* no runs side by side and no detection on its own
SessionsIdle == heap = <<>> /\ runs = <<>> /\ turns = <<>>
DetectorIdle == detector = <<>>
\* no request to the chat API and no MCPService on its own
ApiIdle == api = <<>>
ServiceIdle == mcp = <<>>
ServicesIdle == ApiIdle /\ ServiceIdle

NoResult == [content |-> <<>>, isError |-> FALSE]

\* the state of chatWithTools after lines 70-72
ChatInit ==
  /\ pc = "loop"
  /\ iteration = 0
  /\ continueLoop = TRUE
  /\ conversationHistory = CallerMessages
  /\ events = <<>>
  /\ contentBuffer = ""
  /\ toolCallsBuffer = <<>>
  /\ finishReason = "stop"
  /\ toolCalls = <<>>
  /\ toolIdx = 1
  /\ result = NoResult
  /\ detectedCharts = <<>>
  /\ chartIdx = 1
  /\ awaited = {}
  /\ abandoned = 0
  /\ connections = [s \in {"s1", "s2"} |-> IF s = "s1" THEN "connected" ELSE "error"]
  /\ clientConnected = TRUE
  /\ nChunks = 0
  /\ rich = FALSE
  /\ richUsed = FALSE
  /\ timeouts = 0
  /\ outcomes = <<>>
  /\ turnBase = 0
  /\ delivered = <<>>
  /\ dispatches = <<>>

Init ==
  /\ ChatInit
  /\ SessionsIdle
  /\ DetectorIdle
  /\ ServicesIdle

(***************************************************************************)
(* chatWithTools, lines 74-82: the while condition holds, the iteration is *)
(* counted and a model turn is opened                                      *)
(***************************************************************************)
\* the cap compared off by one
LoopConditionOffByOne(cont, iter) == cont /\ iter <= MAX_ITERATIONS

LoopCondition(cont, iter) == cont /\ iter < MAX_ITERATIONS

LoopEnter ==
  /\ pc = "loop"
  /\ LoopCondition(continueLoop, iteration)
  /\ iteration' = iteration + 1
  /\ pc' = "stream"
  /\ contentBuffer' = ""
  /\ toolCallsBuffer' = <<>>
  /\ finishReason' = "stop"
  /\ nChunks' = 0
  /\ \E r \in BOOLEAN :
       /\ r => ~richUsed
       /\ rich' = r
       /\ richUsed' = (richUsed \/ r)
  /\ turnBase' = Len(events)
  /\ delivered' = <<>>
  /\ UNCHANGED << continueLoop, conversationHistory, events, toolVars, awaited,
                  abandoned, envVars, timeouts, outcomes, sideVars, dispatches >>

(***************************************************************************)
(* accumulateStreamingResponse, lines 205-241: one raw chunk of the model  *)
(* stream is received; what chatStream yields for it is consumed           *)
(***************************************************************************)
\* the fragment put in front of the buffer
AccumulateContentPrepends(buffer, chunk) ==
  IF chunk.type = "content" /\ chunk.content # "" THEN chunk.content \o buffer ELSE buffer

AccumulateContent(buffer, chunk) ==
  IF chunk.type = "content" /\ chunk.content # "" THEN buffer \o chunk.content ELSE buffer

ContentEvents(chunk) ==
  IF chunk.type = "content" /\ chunk.content # ""
  THEN << Event("content", chunk.content, "", "", FALSE, "") >>
  ELSE <<>>

AccumulateToolCalls(buffer, chunk) ==
  IF chunk.type = "tool_call" /\ chunk.hasToolCall
  THEN MergeDeltas(buffer, chunk.tool_call)
  ELSE buffer

AccumulateFinish(reason, chunk) ==
  IF chunk.type = "tool_call" /\ chunk.hasToolCall THEN "tool_calls" ELSE reason

RECURSIVE Accumulate(_, _)
Accumulate(acc, chunks) ==
  IF chunks = <<>> THEN acc
  ELSE LET ch == Head(chunks)
       IN Accumulate([content |-> AccumulateContent(acc.content, ch),
                      buffer |-> AccumulateToolCalls(acc.buffer, ch),
                      finish |-> AccumulateFinish(acc.finish, ch),
                      emitted |-> acc.emitted \o ContentEvents(ch)],
                     Tail(chunks))

\* one raw chunk of chunks is received, at most limit of them in a turn;
\* record tells whether the chunk is kept in the history delivered
ReceiveChunk(chunks, limit, record) ==
  /\ pc = "stream"
  /\ nChunks < limit
  /\ \E raw \in chunks :
       LET acc == Accumulate([content |-> contentBuffer, buffer |-> toolCallsBuffer,
                              finish |-> finishReason, emitted |-> <<>>],
                             chatStream(raw))
       IN /\ contentBuffer' = acc.content
          /\ toolCallsBuffer' = acc.buffer
          /\ finishReason' = acc.finish
          /\ events' = events \o acc.emitted
          /\ delivered' = IF record THEN Append(delivered, raw) ELSE delivered
  /\ nChunks' = nChunks + 1
  /\ UNCHANGED << pc, iteration, continueLoop, conversationHistory, toolVars,
                  awaited, abandoned, envVars, rich, richUsed, timeouts,
                  outcomes, turnBase, dispatches, sideVars >>

StreamChunk ==
  ReceiveChunk(IF rich THEN RichChunks ELSE {PlainChunk},
               IF rich THEN MaxChunks ELSE 1, TRUE)

(***************************************************************************)
(* lines 243-266 and 84-89, 157-162: the stream ended; the turn either     *)
(* requests tools or is the final answer                                   *)
(***************************************************************************)
\* the length test written >= 0
WantsToolsAnyLength(reason, tcs) == reason = "tool_calls" \/ Len(tcs) >= 0

\* the length test left out
WantsToolsByReason(reason, tcs) == reason = "tool_calls"

WantsTools(reason, tcs) == reason = "tool_calls" /\ Len(tcs) > 0

\* the for loop over toolCalls, lines 92 and 153-156: after idx calls are
\* dealt with the loop goes to the next one, or ends and the while loop goes on
AfterToolPc(idx, n) == IF idx < n THEN "for" ELSE "loop"

StreamEnd ==
  /\ pc = "stream"
  /\ LET tcs == Materialize(toolCallsBuffer)
     IN /\ conversationHistory' =
             Append(conversationHistory, AssistantMessage(contentBuffer, tcs))
        /\ toolCalls' = tcs
        /\ IF WantsTools(finishReason, tcs)
           THEN /\ pc' = AfterToolPc(0, Len(tcs))
                /\ toolIdx' = 1
                /\ continueLoop' = IF Len(tcs) = 0 THEN TRUE ELSE continueLoop
           ELSE /\ pc' = "loop"
                /\ continueLoop' = FALSE
                /\ UNCHANGED toolIdx
  /\ UNCHANGED << iteration, events, accVars, result, detectedCharts, chartIdx,
                  awaited, abandoned, envVars, boundVars, outcomes, turnBase, auxVars, dispatches >>

(***************************************************************************)
(* lines 163-170: the model stream threw, at its opening or later          *)
(***************************************************************************)
\* the catch block returns from the generator instead of breaking
StreamThrowsReturns ==
  /\ pc = "stream"
  /\ \E m \in StreamErrors :
       /\ m = "LLM service not configured" => nChunks = 0
       /\ events' = Append(events, Event("error", "", "", "", FALSE, m))
  /\ pc' = "done"
  /\ UNCHANGED << iteration, continueLoop, conversationHistory, accVars, toolVars,
                  awaited, abandoned, envVars, boundVars, outcomes, turnBase, auxVars, dispatches >>

StreamThrows ==
  /\ pc = "stream"
  /\ \E m \in StreamErrors :
       /\ m = "LLM service not configured" => nChunks = 0
       /\ events' = Append(events, Event("error", "", "", "", FALSE, m))
  /\ pc' = "after"
  /\ UNCHANGED << iteration, continueLoop, conversationHistory, accVars, toolVars,
                  awaited, abandoned, envVars, boundVars, outcomes, turnBase, auxVars, dispatches >>

(***************************************************************************)
(* lines 92-99: the for loop reaches the next tool call and announces it   *)
(***************************************************************************)
ToolStart ==
  /\ pc = "for"
  /\ toolIdx <= Len(toolCalls)
  /\ events' = Append(events, Event("tool_execution_start", "", toolCalls[toolIdx].name,
                                     toolCalls[toolIdx].id, FALSE, ""))
  /\ pc' = "exec"
  /\ UNCHANGED << iteration, continueLoop, conversationHistory, accVars, toolVars,
                  awaited, abandoned, envVars, boundVars, outcomes, turnBase, auxVars, dispatches >>

AfterTool ==
  /\ pc' = AfterToolPc(toolIdx, Len(toolCalls))
  /\ IF toolIdx < Len(toolCalls)
     THEN toolIdx' = toolIdx + 1 /\ UNCHANGED continueLoop
     ELSE continueLoop' = TRUE /\ UNCHANGED toolIdx

\* lines 134-152: the catch block of one tool call
ToolErrorMessage(tc, msg) ==
  [role |-> "tool", content |-> "Error executing " \o tc.name \o ": " \o msg,
   tool_calls |-> NoToolCalls, tool_call_id |-> tc.id, nCharts |-> 0]

ToolErrorEvent(tc) == Event("tool_execution_result", "", tc.name, tc.id, TRUE, "")

\* the inner catch missing: the rejection reaches the catch of the iteration
CatchToolErrorEscapes(tc, msg) ==
  /\ events' = Append(events, Event("error", "", "", "", FALSE, msg))
  /\ pc' = "after"
  /\ UNCHANGED << conversationHistory, toolIdx, continueLoop >>

CatchToolError(tc, msg) ==
  /\ conversationHistory' = Append(conversationHistory, ToolErrorMessage(tc, msg))
  /\ events' = Append(events, ToolErrorEvent(tc))
  /\ AfterTool

\* the tools are looked up among those of the servers connected right now
ExecuteToolCallErrorLiveTools(tools, conns, tc) ==
  LET live == SelectSeq(tools, LAMBDA t : /\ t.serverId \in DOMAIN conns
                                          /\ conns[t.serverId] = "connected")
      tool == FindTool(live, tc.name)
  IN IF ~tool.found THEN "Tool '" \o tc.name \o "' not found"
     ELSE IF ~JsonParses(tc.arguments)
          THEN "Invalid tool arguments: Unexpected end of JSON input"
          ELSE ExecuteToolPrecheck(conns, tool.serverId)

\* executeToolCall, lines 304-318, and the checks of MCPService.executeTool
\* before the provider is called: the rejection message, "" when the call
\* is dispatched
\* the arguments are not parsed before the call is passed on
ExecuteToolCallErrorUnparsed(tools, conns, tc) ==
  LET tool == FindTool(tools, tc.name)
  IN IF ~tool.found THEN "Tool '" \o tc.name \o "' not found"
     ELSE ExecuteToolPrecheck(conns, tool.serverId)

ExecuteToolCallError(tools, conns, tc) ==
  LET tool == FindTool(tools, tc.name)
  IN IF ~tool.found THEN "Tool '" \o tc.name \o "' not found"
     ELSE IF ~JsonParses(tc.arguments)
          THEN "Invalid tool arguments: Unexpected end of JSON input"
          ELSE ExecuteToolPrecheck(conns, tool.serverId)

\* lines 327-331 and MCPService.executeTool line 444: the provider call made
\* for a tool call that passed every check
ProviderCall(tools, tc) ==
  [serverId |-> FindTool(tools, tc.name).serverId, name |-> tc.name,
   arguments |-> tc.arguments]

ExecuteToolCallKind(tools, conns, tc) ==
  LET tool == FindTool(tools, tc.name)
  IN IF ~tool.found THEN "unknown_tool"
     ELSE IF ~JsonParses(tc.arguments) THEN "invalid_arguments"
     ELSE IF ExecuteToolPrecheck(conns, tool.serverId) # "" THEN "not_connected"
     ELSE "dispatched"

(***************************************************************************)
(* lines 101-102, executeToolCallWithTimeout and executeToolCall up to the *)
(* provider call: the call is rejected at once or dispatched and awaited   *)
(***************************************************************************)
\* the dispatched call is not awaited before the loop goes on
ExecuteToolCallNoAwait ==
  /\ pc = "exec"
  /\ LET tc == toolCalls[toolIdx]
         msg == ExecuteToolCallError(Tools, connections, tc)
     IN IF msg # ""
        THEN /\ CatchToolError(tc, msg)
             /\ outcomes' = Append(outcomes,
                  [id |-> tc.id, kind |-> ExecuteToolCallKind(Tools, connections, tc)])
             /\ UNCHANGED << awaited, dispatches >>
        ELSE /\ pc' = IF toolIdx < Len(toolCalls) THEN "for" ELSE "await"
             /\ toolIdx' = IF toolIdx < Len(toolCalls) THEN toolIdx + 1 ELSE toolIdx
             /\ awaited' = awaited \cup {toolIdx}
             /\ dispatches' = Append(dispatches, ProviderCall(Tools, tc))
             /\ UNCHANGED << continueLoop, conversationHistory, events, outcomes >>
  /\ UNCHANGED << iteration, accVars, toolCalls, result, detectedCharts, chartIdx,
                  abandoned, envVars, boundVars, turnBase, auxVars >>

ExecuteToolCall ==
  /\ pc = "exec"
  /\ LET tc == toolCalls[toolIdx]
         msg == ExecuteToolCallError(Tools, connections, tc)
     IN IF msg # ""
        THEN /\ CatchToolError(tc, msg)
             /\ outcomes' = Append(outcomes,
                  [id |-> tc.id, kind |-> ExecuteToolCallKind(Tools, connections, tc)])
             /\ UNCHANGED << awaited, dispatches >>
        ELSE /\ pc' = "await"
             /\ awaited' = awaited \cup {toolIdx}
             /\ dispatches' = Append(dispatches, ProviderCall(Tools, tc))
             /\ UNCHANGED << continueLoop, conversationHistory, events, toolIdx, outcomes >>
  /\ UNCHANGED << iteration, accVars, toolCalls, result, detectedCharts, chartIdx,
                  abandoned, envVars, boundVars, turnBase, auxVars >>

(***************************************************************************)
(* MCPService.executeTool from the provider call on, and lines 104-106:    *)
(* the provider call settles before the timer; the result is normalised    *)
(* and scanned for charts                                                  *)
(***************************************************************************)
\* line 105: the content of the last user message, or ''
LastUserQuery(history) ==
  LET users == SelectSeq(history, LAMBDA m : m.role = "user")
  IN IF Len(users) = 0 THEN "" ELSE users[Len(users)].content

\* the provider behaves as one of raws
ProviderSettlesWith(raws) ==
  /\ pc = "await"
  /\ toolIdx \in awaited
  /\ \E raw \in raws :
       /\ result' = NormalizeResult(toolCalls[toolIdx].name, raw)
       /\ outcomes' = Append(outcomes,
            [id |-> toolCalls[toolIdx].id,
             kind |-> IF raw.outcome = "throws" THEN "provider_throws" ELSE "returned",
             raw |-> raw])
  /\ detectedCharts' = detectChartsInToolResult(result', toolCalls[toolIdx].name,
                                                LastUserQuery(conversationHistory),
                                                Len(outcomes))
  /\ chartIdx' = 1
  /\ awaited' = awaited \ {toolIdx}
  /\ pc' = "charts"
  /\ UNCHANGED << iteration, continueLoop, conversationHistory, events, accVars,
                  toolCalls, toolIdx, abandoned, envVars, boundVars, turnBase,
                  auxVars, dispatches >>

ProviderSettles == ProviderSettlesWith(IF rich THEN RichResults ELSE {PlainResult})

(***************************************************************************)
(* executeToolCallWithTimeout, lines 280-290: the timer fires while the    *)
(* provider call is pending; the race rejects, the provider call goes on   *)
(***************************************************************************)
TimeoutMessage == "Tool execution timeout after " \o ToString(TOOL_EXECUTION_TIMEOUT) \o "ms"

\* no timer: the provider call is awaited on its own
TimerFiresNoTimer ==
  /\ pc = "await"
  /\ toolIdx \in awaited
  /\ FALSE
  /\ UNCHANGED vars

\* no race: the timer's rejection reaches nobody and the loop keeps waiting
TimerFiresUnraced ==
  /\ pc = "await"
  /\ toolIdx \in awaited
  /\ rich
  /\ timeouts < MaxTimeouts
  /\ timeouts' = timeouts + 1
  /\ outcomes' = Append(outcomes, [id |-> toolCalls[toolIdx].id, kind |-> "timeout"])
  /\ UNCHANGED << pc, iteration, continueLoop, conversationHistory, events, accVars,
                  toolVars, awaited, abandoned, envVars, nChunks, rich, richUsed,
                  turnBase, auxVars, dispatches >>

TimerFires ==
  /\ pc = "await"
  /\ toolIdx \in awaited
  /\ rich
  /\ timeouts < MaxTimeouts
  /\ timeouts' = timeouts + 1
  /\ awaited' = awaited \ {toolIdx}
  /\ abandoned' = abandoned + 1
  /\ CatchToolError(toolCalls[toolIdx], TimeoutMessage)
  /\ outcomes' = Append(outcomes, [id |-> toolCalls[toolIdx].id, kind |-> "timeout"])
  /\ UNCHANGED << iteration, accVars, toolCalls, result, detectedCharts, chartIdx,
                  envVars, nChunks, rich, richUsed, turnBase, auxVars, dispatches >>

\* the late result is handled as if the loop still waited for it
AbandonedSettlesReported ==
  /\ abandoned > 0
  /\ abandoned' = abandoned - 1
  /\ events' = Append(events, Event("tool_execution_result", "", "", "", FALSE, ""))
  /\ UNCHANGED << pc, iteration, continueLoop, conversationHistory, accVars,
                  toolVars, awaited, envVars, boundVars, outcomes, turnBase, auxVars, dispatches >>

\* a provider call nobody waits for any more completes; its result is dropped
AbandonedSettles ==
  /\ abandoned > 0
  /\ abandoned' = abandoned - 1
  /\ UNCHANGED << pc, iteration, continueLoop, conversationHistory, events, accVars,
                  toolVars, awaited, envVars, boundVars, outcomes, turnBase, auxVars, dispatches >>

\* lines 280-285: the timer is never cleared, so the timer of a call whose
\* race is already decided against it fires later; timeouts counts the
\* timers that fired, the winning ones and the late ones
TimerWins == Cardinality({k \in 1..Len(outcomes) : outcomes[k].kind = "timeout"})
LostTimers == Cardinality({k \in 1..Len(outcomes) : outcomes[k].kind # "timeout"})

\* the rejection of a timer that lost its race reaches nobody
LateTimerFires ==
  /\ rich
  /\ timeouts < MaxTimeouts
  /\ timeouts - TimerWins < LostTimers
  /\ timeouts' = timeouts + 1
  /\ UNCHANGED << pc, iteration, continueLoop, conversationHistory, events, accVars,
                  toolVars, awaited, abandoned, envVars, nChunks, rich, richUsed,
                  outcomes, turnBase, auxVars, dispatches >>

(***************************************************************************)
(* lines 109-114: one chart_data event per detected chart                  *)
(***************************************************************************)
EmitChart ==
  /\ pc = "charts"
  /\ chartIdx <= Len(detectedCharts)
  /\ events' = Append(events, Event("chart_data", detectedCharts[chartIdx].id,
                                     toolCalls[toolIdx].name, "", FALSE, ""))
  /\ chartIdx' = chartIdx + 1
  /\ UNCHANGED << pc, iteration, continueLoop, conversationHistory, accVars, toolCalls,
                  toolIdx, result, detectedCharts, awaited, abandoned, envVars,
                  boundVars, outcomes, turnBase, auxVars, dispatches >>

(***************************************************************************)
(* lines 116-133: the tool-role message and the result event               *)
(***************************************************************************)
\* the id of the call left out of the message
ToolResultMessageWithoutId(tc, res, charts) ==
  [role |-> "tool", content |-> formatToolResult(res), tool_calls |-> NoToolCalls,
   tool_call_id |-> "", nCharts |-> Len(charts)]

ToolResultMessage(tc, res, charts) ==
  [role |-> "tool", content |-> formatToolResult(res), tool_calls |-> NoToolCalls,
   tool_call_id |-> tc.id, nCharts |-> Len(charts)]

ToolResultEvent(tc, res) == Event("tool_execution_result", "", tc.name, tc.id, res.isError, "")

ToolSucceeded ==
  /\ pc = "charts"
  /\ chartIdx > Len(detectedCharts)
  /\ conversationHistory' =
       Append(conversationHistory, ToolResultMessage(toolCalls[toolIdx], result, detectedCharts))
  /\ events' = Append(events, ToolResultEvent(toolCalls[toolIdx], result))
  /\ AfterTool
  /\ UNCHANGED << iteration, accVars, toolCalls, result, detectedCharts, chartIdx,
                  awaited, abandoned, envVars, boundVars, outcomes, turnBase, auxVars, dispatches >>

(***************************************************************************)
(* line 74 failing, lines 173-182                                          *)
(***************************************************************************)
LoopExit ==
  /\ pc = "loop"
  /\ ~LoopCondition(continueLoop, iteration)
  /\ pc' = "after"
  /\ UNCHANGED << iteration, continueLoop, conversationHistory, events, accVars,
                  toolVars, awaited, abandoned, envVars, boundVars, outcomes, turnBase, auxVars, dispatches >>

SafetyLimitReached(iter) == iter >= MAX_ITERATIONS

AfterLoop ==
  /\ pc = "after"
  /\ events' = IF SafetyLimitReached(iteration)
               THEN Append(events, Event("error", "", "", "", FALSE, SafetyMessage))
               ELSE events
  /\ pc' = "final"
  /\ UNCHANGED << iteration, continueLoop, conversationHistory, accVars, toolVars,
                  awaited, abandoned, envVars, boundVars, outcomes, turnBase, auxVars, dispatches >>

Done ==
  /\ pc = "final"
  /\ events' = Append(events, Event("done", "", "", "", FALSE, ""))
  /\ pc' = "done"
  /\ UNCHANGED << iteration, continueLoop, conversationHistory, accVars, toolVars,
                  awaited, abandoned, envVars, boundVars, outcomes, turnBase, auxVars, dispatches >>

(***************************************************************************)
(* ChatAPI.chat, lines 67-72: the client goes away while the response is   *)
(* streamed.  res.write on a closed connection reports the failure to its  *)
(* callback and does not throw, so the for await loop keeps pulling.       *)
(***************************************************************************)
ClientDisconnect ==
  /\ clientConnected
  /\ pc # "done"
  /\ clientConnected' = FALSE
  /\ UNCHANGED << pc, iteration, continueLoop, conversationHistory, events, accVars,
                  toolVars, awaited, abandoned, connections, boundVars, outcomes,
                  turnBase, auxVars, dispatches >>

Next ==
  \/ LoopEnter
  \/ StreamChunk
  \/ StreamEnd
  \/ StreamThrows
  \/ ToolStart
  \/ ExecuteToolCall
  \/ ProviderSettles
  \/ TimerFires
  \/ AbandonedSettles
  \/ EmitChart
  \/ ToolSucceeded
  \/ LoopExit
  \/ AfterLoop
  \/ Done

Spec == Init /\ [][Next]_vars

(***************************************************************************)
(* The run with a caller that pulls every event, model streams that end or *)
(* fail, and timers that fire.  The synchronous code between two awaits    *)
(* runs (lines 74-183), an opened stream ends or throws, and the timer of  *)
(* a pending call fires (lines 280-285).  A provider call may hang for     *)
(* ever where the timer can fire in its place; the timer is counted up to  *)
(* MaxTimeouts and kept to the arbitrary turn, so every other provider     *)
(* call returns.                                                           *)
(***************************************************************************)
GeneratorStep ==
  \/ LoopEnter
  \/ ToolStart
  \/ ExecuteToolCall
  \/ EmitChart
  \/ ToolSucceeded
  \/ LoopExit
  \/ AfterLoop
  \/ Done

\* the arbitrary turn draws from fewer streams and results: one chunk of
\* text, of one call or of two, and a result without or with a chart
LiveChunks ==
  { RawChunk("Hi", FALSE, <<>>, FALSE),
    PlainChunk,
    RawChunk("ok", TRUE, << Delta(0, "c1", "t1", "{}"), Delta(1, "c2", "t1", "{}") >>, TRUE) }

LiveResults ==
  { PlainResult,
    RawResult("returns", "list", << UntypedItem, ChartItem(2) >>, "false") }

StreamChunkLive == ReceiveChunk(IF rich THEN LiveChunks ELSE {PlainChunk}, 1, TRUE)
ProviderSettlesLive == ProviderSettlesWith(IF rich THEN LiveResults ELSE {PlainResult})

TimerCanFire == rich /\ timeouts < MaxTimeouts

NextLive ==
  \/ GeneratorStep
  \/ StreamChunkLive
  \/ StreamEnd
  \/ StreamThrows
  \/ ProviderSettlesLive
  \/ TimerFires
  \/ AbandonedSettles

SpecLive ==
  /\ Init
  /\ [][NextLive]_vars
  /\ WF_vars(GeneratorStep)
  /\ WF_vars(StreamEnd \/ StreamThrows)
  /\ WF_vars(TimerFires)
  /\ WF_vars(ProviderSettlesLive /\ ~TimerCanFire)

(***************************************************************************)
(* The run with the timers that lost their race.  The timer set by        *)
(* executeToolCallWithTimeout is never cleared (lines 280-285), so it      *)
(* fires some time after the call it was set for has ended.  The streams   *)
(* and the results are those of NextLive.                                  *)
(***************************************************************************)
NextRace == NextLive \/ LateTimerFires

SpecRace == Init /\ [][NextRace]_vars

(***************************************************************************)
(* The run while MCPService changes under it.  ChatAPI.chat, line 59,      *)
(* hands the run the tools getAllTools answered; a server of the map then  *)
(* falls into the status error (part_006 lines 275-290) or is removed by   *)
(* disconnectServer (line 342) while the run is under way.                 *)
(***************************************************************************)
ServerGoesDown ==
  /\ pc # "done"
  /\ \E s \in DOMAIN connections :
       /\ connections[s] = "connected"
       /\ \/ connections' = [connections EXCEPT ![s] = "error"]
          \/ connections' = [t \in DOMAIN connections \ {s} |-> connections[t]]
  /\ UNCHANGED << pc, iteration, continueLoop, conversationHistory, events, accVars,
                  toolVars, awaited, abandoned, clientConnected, boundVars, outcomes,
                  turnBase, auxVars, dispatches >>

\* the streams and the results are those of NextLive
NextSnapshot == NextLive \/ ServerGoesDown

SpecSnapshot == Init /\ [][NextSnapshot]_vars

NextCancel == Next \/ ClientDisconnect

SpecCancel == Init /\ [][NextCancel]_vars

(***************************************************************************)
(* accumulateStreamingResponse on its own: the first turn of a run with    *)
(* any stream of at most MaxDeltas raw chunks of AccumulatorChunks, kept   *)
(* in delivered; the run is followed up to the end of the stream           *)
(***************************************************************************)
InitAccumulate ==
  /\ pc = "stream"
  /\ iteration = 1
  /\ continueLoop = TRUE
  /\ conversationHistory = CallerMessages
  /\ events = <<>>
  /\ contentBuffer = ""
  /\ toolCallsBuffer = <<>>
  /\ finishReason = "stop"
  /\ toolCalls = <<>>
  /\ toolIdx = 1
  /\ result = NoResult
  /\ detectedCharts = <<>>
  /\ chartIdx = 1
  /\ awaited = {}
  /\ abandoned = 0
  /\ connections = [s \in {"s1", "s2"} |-> IF s = "s1" THEN "connected" ELSE "error"]
  /\ clientConnected = TRUE
  /\ nChunks = 0
  /\ rich = FALSE
  /\ richUsed = FALSE
  /\ timeouts = 0
  /\ outcomes = <<>>
  /\ turnBase = 0
  /\ delivered = <<>>
  /\ dispatches = <<>>
  /\ SessionsIdle
  /\ DetectorIdle
  /\ ServicesIdle

StreamDelivers == ReceiveChunk(AccumulatorChunks, MaxDeltas, TRUE)

NextAccumulate ==
  \/ StreamDelivers
  \/ StreamEnd

SpecAccumulate == InitAccumulate /\ [][NextAccumulate]_vars

(***************************************************************************)
(* The tool executor on its own: executeToolCallWithTimeout, executeToolCall*)
(* and MCPService.executeTool for the single tool call of a first turn,    *)
(* any call of ExecutorCalls under any connection map of ConnectionMaps    *)
(* and any provider behaviour of RawResults; the run starts after the      *)
(* call's start event and is followed until the call has settled           *)
(***************************************************************************)
InitExecute ==
  /\ pc = "exec"
  /\ iteration = 1
  /\ continueLoop = TRUE
  /\ \E tc \in ExecutorCalls :
       /\ toolCalls = << tc >>
       /\ toolCallsBuffer = << [index |-> 0, id |-> tc.id, hasFunction |-> TRUE,
                                name |-> tc.name, arguments |-> tc.arguments] >>
       /\ conversationHistory = Append(CallerMessages, AssistantMessage("", << tc >>))
       /\ events = << Event("tool_execution_start", "", tc.name, tc.id, FALSE, "") >>
  /\ contentBuffer = ""
  /\ finishReason = "tool_calls"
  /\ toolIdx = 1
  /\ result = NoResult
  /\ detectedCharts = <<>>
  /\ chartIdx = 1
  /\ awaited = {}
  /\ abandoned = 0
  /\ connections \in ConnectionMaps
  /\ clientConnected = TRUE
  /\ nChunks = 1
  /\ rich = TRUE
  /\ richUsed = TRUE
  /\ timeouts = 0
  /\ outcomes = <<>>
  /\ turnBase = 0
  /\ delivered = <<>>
  /\ dispatches = <<>>
  /\ SessionsIdle
  /\ DetectorIdle
  /\ ServicesIdle

ExecutorSettles == ProviderSettlesWith(RawResults)

NextExecute ==
  \/ ExecuteToolCall
  \/ ExecutorSettles

SpecExecute == InitExecute /\ [][NextExecute]_vars

(***************************************************************************)
(* Two chatWithTools generators of one ChatOrchestrator, started with the  *)
(* same messages array and advanced in any interleaving.  Arrays are kept  *)
(* by reference in heap; every turn of a run is a plain tool turn, a       *)
(* final answer or a stream exception.                                     *)
(***************************************************************************)
Runs == {"a", "b"}

PlainCall == Materialize(MergeDeltas(<<>>, PlainChunk.tool_calls))[1]
PlainToolResult == NormalizeResult(PlainCall.name, PlainResult)

\* line 70 without the copy: the history is the caller's array itself
SpreadMessagesAliased(h, r) == [ref |-> "caller", arrays |-> h]

\* line 70, [...messages]: a new array with the caller's messages
SpreadMessages(h, r) == [ref |-> r, arrays |-> [h EXCEPT ![r] = h["caller"]]]

\* conversationHistory.push(m) on the array the run holds
Push(h, ref, m) == [h EXCEPT ![ref] = Append(@, m)]

InitTwoRuns ==
  /\ ChatInit
  /\ DetectorIdle
  /\ ServicesIdle
  /\ heap = [a \in {"caller"} \cup Runs |-> IF a = "caller" THEN CallerMessages ELSE <<>>]
  /\ runs = [r \in Runs |-> [pc |-> "start", iteration |-> 0, continueLoop |-> TRUE,
                              history |-> "none", events |-> <<>>]]
  /\ turns = [r \in Runs |-> <<>>]

\* lines 70-72
RunStart(r) ==
  /\ runs[r].pc = "start"
  /\ LET c == SpreadMessages(heap, r)
     IN /\ heap' = c.arrays
        /\ runs' = [runs EXCEPT ![r] = [@ EXCEPT !.pc = "loop", !.history = c.ref]]
  /\ UNCHANGED << chatVars, turns, detector, serviceVars >>

\* lines 74-82
RunOpensTurn(r) ==
  /\ runs[r].pc = "loop"
  /\ LoopCondition(runs[r].continueLoop, runs[r].iteration)
  /\ runs' = [runs EXCEPT ![r] = [@ EXCEPT !.pc = "stream", !.iteration = @ + 1]]
  /\ UNCHANGED << chatVars, heap, turns, detector, serviceVars >>

\* lines 84-91: the turn requests the plain tool call
RunRequestsTool(r) ==
  /\ runs[r].pc = "stream"
  /\ heap' = Push(heap, runs[r].history, AssistantMessage("", << PlainCall >>))
  /\ runs' = [runs EXCEPT ![r] = [@ EXCEPT !.pc = "tool"]]
  /\ UNCHANGED << chatVars, turns, detector, serviceVars >>

\* lines 92-156: the call is announced, executed and answered
RunExecutesTool(r) ==
  /\ runs[r].pc = "tool"
  /\ heap' = Push(heap, runs[r].history,
                  ToolResultMessage(PlainCall, PlainToolResult,
                                    detectChartsInToolResult(PlainToolResult, PlainCall.name,
                                      LastUserQuery(heap[runs[r].history]),
                                      Len(turns[r]))))
  /\ runs' = [runs EXCEPT ![r] =
       [@ EXCEPT !.pc = "loop", !.continueLoop = TRUE,
                 !.events = @ \o << Event("tool_execution_start", "", PlainCall.name,
                                          PlainCall.id, FALSE, ""),
                                    ToolResultEvent(PlainCall, PlainToolResult) >>]]
  /\ turns' = [turns EXCEPT ![r] = Append(@, "tool")]
  /\ UNCHANGED << chatVars, detector, serviceVars >>

\* lines 157-162: the turn is the final answer
RunAnswers(r) ==
  /\ runs[r].pc = "stream"
  /\ heap' = Push(heap, runs[r].history, AssistantMessage("Hi", <<>>))
  /\ runs' = [runs EXCEPT ![r] =
       [@ EXCEPT !.pc = "loop", !.continueLoop = FALSE,
                 !.events = Append(@, Event("content", "Hi", "", "", FALSE, ""))]]
  /\ turns' = [turns EXCEPT ![r] = Append(@, "final")]
  /\ UNCHANGED << chatVars, detector, serviceVars >>

\* lines 163-170
RunStreamThrows(r) ==
  /\ runs[r].pc = "stream"
  /\ runs' = [runs EXCEPT ![r] =
       [@ EXCEPT !.pc = "after",
                 !.events = Append(@, Event("error", "", "", "", FALSE, "Connection error."))]]
  /\ turns' = [turns EXCEPT ![r] = Append(@, "throws")]
  /\ UNCHANGED << chatVars, heap, detector, serviceVars >>

\* line 74 failing
RunLeavesLoop(r) ==
  /\ runs[r].pc = "loop"
  /\ ~LoopCondition(runs[r].continueLoop, runs[r].iteration)
  /\ runs' = [runs EXCEPT ![r] = [@ EXCEPT !.pc = "after"]]
  /\ UNCHANGED << chatVars, heap, turns, detector, serviceVars >>

\* lines 173-182
RunEnds(r) ==
  /\ runs[r].pc = "after"
  /\ runs' = [runs EXCEPT ![r] =
       [@ EXCEPT !.pc = "done",
                 !.events = @ \o (IF SafetyLimitReached(runs[r].iteration)
                                  THEN << Event("error", "", "", "", FALSE, SafetyMessage) >>
                                  ELSE <<>>)
                              \o << Event("done", "", "", "", FALSE, "") >>]]
  /\ UNCHANGED << chatVars, heap, turns, detector, serviceVars >>

NextTwoRuns ==
  \E r \in Runs :
    \/ RunStart(r)
    \/ RunOpensTurn(r)
    \/ RunRequestsTool(r)
    \/ RunExecutesTool(r)
    \/ RunAnswers(r)
    \/ RunStreamThrows(r)
    \/ RunLeavesLoop(r)
    \/ RunEnds(r)

SpecTwoRuns == InitTwoRuns /\ [][NextTwoRuns]_vars

(***************************************************************************)
(* The chart detector on its own: detectChartsInToolResult applied once    *)
(* and again to one tool result, tool name and user query.  detector.given *)
(* remembers the result as it was handed in.                               *)
(***************************************************************************)
DetectorRows ==
  { Obj(<< Field("date", Str("2024-01-01")), Field("steps", Num(100)) >>),
    Obj(<< Field("date", Str("2024-01-02")), Field("steps", Num(200)) >>),
    Obj(<< Field("steps", Num(300)), Field("date", Str("2024-01-03")) >>),
    Obj(<< Field("steps", Num(100)), Field("value", Num(1)) >>),
    Obj(<< Field("date", Str("2024-01-01")), Field("steps", Str("many")) >>),
    Obj(<< Field("date", Str("2024-01-01")),
           Field("stats", Obj(<< Field("totalSteps", Num(5)), Field("id", Num(7)) >>)) >>),
    Obj(<< Field("name", Str("a")), Field("id", Num(1)) >>),
    Obj(<< Field("name", Str("a")) >>),
    Obj(<< Field("name", Str("a")), Field("value", Num(3)), Field("steps", Num(2)) >>),
    Obj(<< Field("date", Str("2024-01-04")), Field("steps", Num(400)),
           Field("totalSteps", Num(9)) >>),
    Arr(<< Str("a"), Num(1) >>),
    Num(5) }

RowLists == UNION { [1..n -> DetectorRows] : n \in 0..MaxRows }

\* the three places a candidate list is found in: the data of an item, the
\* JSON text of an item, an array property of the JSON text of an item
DetectorItems(rows) ==
  { [type |-> "resource", text |-> "", data |-> Arr(rows), json |-> Invalid],
    [type |-> "text", text |-> "[rows]", data |-> Undefined, json |-> Arr(rows)],
    [type |-> "text", text |-> "{name,value:[rows]}", data |-> Undefined,
     json |-> Obj(<< Field("name", Str("x")), Field("value", Arr(rows)) >>)] }

DetectorQueries == {"", "how many steps", "my heart rate"}
DetectorTools == {"t1", "get_steps_data"}

InitDetect ==
  /\ ChatInit
  /\ SessionsIdle
  /\ ServicesIdle
  /\ \E rows \in RowLists : \E item \in DetectorItems(rows) : \E failed \in BOOLEAN :
     \E toolName \in DetectorTools : \E userQuery \in DetectorQueries :
       LET res == [content |-> << item >>, isError |-> failed]
       IN detector = [given |-> res, result |-> res, toolName |-> toolName,
                      userQuery |-> userQuery, calls |-> <<>>]

\* flattenNestedArrayData writing its rows back into the list it was given
FlattenedInPlace(res) ==
  [res EXCEPT !.content =
     [i \in 1..Len(res.content) |->
        IF res.content[i].data.t = "array"
        THEN [res.content[i] EXCEPT !.data = Arr(flattenNestedArrayData(@.v))]
        ELSE res.content[i]]]

\* the detector working on the caller's rows in place
DetectInPlace ==
  /\ Len(detector.calls) < 2
  /\ \E stamp \in 0..Len(detector.calls) :
       detector' =
         [detector EXCEPT
            !.calls = Append(@, detectChartsInToolResult(detector.result, detector.toolName,
                                                        detector.userQuery, stamp)),
            !.result = IF detector.result.isError THEN @ ELSE FlattenedInPlace(@)]
  /\ UNCHANGED << chatVars, heap, runs, turns, serviceVars >>

\* one call of detectChartsInToolResult; the clock and the random draws of
\* the second call are those of the first or others
Detect ==
  /\ Len(detector.calls) < 2
  /\ \E stamp \in 0..Len(detector.calls) :
       detector' =
         [detector EXCEPT
            !.calls = Append(@, detectChartsInToolResult(detector.result, detector.toolName,
                                                        detector.userQuery, stamp))]
  /\ UNCHANGED << chatVars, heap, runs, turns, serviceVars >>

NextDetect == Detect
SpecDetect == InitDetect /\ [][NextDetect]_vars

(***************************************************************************)
(* The choice of the Y keys on its own: lines 666-682 and 704 of           *)
(* analyzeDataForChart hand the numeric keys of the rows to                *)
(* filterChartableNumericFields and what it returns, unless empty, to      *)
(* selectRelevantMetrics.                                                  *)
(***************************************************************************)
SelectorKeys ==
  {"steps", "totalSteps", "dailySteps", "heartRate", "restingHeartRate", "value", "id"}

\* the keys of an object, each once, in some order
KeyLists ==
  { keys \in UNION { [1..n -> SelectorKeys] : n \in 1..MaxKeys } :
      \A i, j \in 1..Len(keys) : i # j => keys[i] # keys[j] }

InitSelect ==
  /\ ChatInit
  /\ SessionsIdle
  /\ ServicesIdle
  /\ \E numericKeys \in KeyLists :
     \E toolName \in DetectorTools : \E userQuery \in DetectorQueries :
       detector = [pc |-> "keys", numericKeys |-> numericKeys, toolName |-> toolName,
                   userQuery |-> userQuery, filtered |-> <<>>, yKeys |-> <<>>]

SelectFrame == UNCHANGED << chatVars, heap, runs, turns, serviceVars >>

\* lines 677-682
FilterKeys ==
  /\ detector.pc = "keys"
  /\ LET filteredNumericKeys ==
           filterChartableNumericFields(detector.numericKeys, detector.toolName)
     IN detector' = [detector EXCEPT
                       !.filtered = filteredNumericKeys,
                       !.pc = IF Len(filteredNumericKeys) = 0 THEN "null" ELSE "filtered"]
  /\ SelectFrame

\* line 704
SelectKeys ==
  /\ detector.pc = "filtered"
  /\ detector' = [detector EXCEPT
                    !.yKeys = selectRelevantMetrics(detector.filtered, detector.toolName,
                                                    detector.userQuery),
                    !.pc = "selected"]
  /\ SelectFrame

NextSelect == FilterKeys \/ SelectKeys
SpecSelect == InitSelect /\ [][NextSelect]_vars

(***************************************************************************)
(* ChatAPI.chat, src/backend/src/api/chat.ts lines 30-89: one request and  *)
(* its response.  api.run tells how the orchestrator's generator ended.    *)
(***************************************************************************)
\* z.enum(['user', 'assistant', 'system', 'tool'])
MessageRoles == {"user", "assistant", "system", "tool"}

\* lines 8-18: ChatRequestSchema.safeParse(body).success
MessageParses(msg) ==
  /\ msg.t = "object"
  /\ Get(msg, "role").t = "string"
  /\ Get(msg, "role").v \in MessageRoles
  /\ Get(msg, "content").t = "string"
  /\ Get(msg, "tool_call_id").t \in {"undefined", "string"}
  /\ Get(msg, "timestamp").t \in {"undefined", "number"}

safeParse(body) ==
  /\ body.t = "object"
  /\ Get(body, "messages").t = "array"
  /\ \A i \in 1..Len(Get(body, "messages").v) : MessageParses(Get(body, "messages").v[i])

\* JSON.stringify of an object of strings, as in the frames of lines 69-78
StringifyFlat(val) ==
  "{" \o Join([i \in 1..Len(val.v) |->
                 "\"" \o val.v[i].k \o "\":\"" \o val.v[i].val.v \o "\""], ",") \o "}"

Frame(text) == "data: " \o text \o "\n\n"
DoneFrame == Frame("[DONE]")
ErrorFrame(message) ==
  Frame(StringifyFlat(Obj(<< Field("type", Str("error")), Field("error", Str(message)) >>)))

\* what the request carries
UserMessage == Obj(<< Field("role", Str("user")), Field("content", Str("Hello")) >>)
ValidBodies ==
  { Obj(<< Field("messages", Arr(<<>>)) >>),
    Obj(<< Field("messages", Arr(<< UserMessage >>)) >>),
    Obj(<< Field("messages", Arr(<< UserMessage,
             Obj(<< Field("role", Str("tool")), Field("content", Str("")),
                    Field("tool_call_id", Str("c1")), Field("timestamp", Num(1)) >>) >>)),
           Field("model", Str("x")) >>) }
InvalidBodies ==
  { Undefined,
    Obj(<<>>),
    Obj(<< Field("messages", Str("invalid")) >>),
    Obj(<< Field("messages", Arr(<< Str("Hello") >>)) >>),
    Obj(<< Field("messages", Arr(<< UserMessage,
             Obj(<< Field("role", Str("robot")), Field("content", Str("Hello")) >>) >>)) >>),
    Obj(<< Field("messages", Arr(<< Obj(<< Field("role", Str("user")) >>) >>)) >>),
    Obj(<< Field("messages", Arr(<< Obj(<< Field("role", Str("user")),
             Field("content", Str("Hello")), Field("timestamp", Str("now")) >>) >>)) >>) }

\* what the orchestrator yields
ApiChunks ==
  { Obj(<< Field("type", Str("content")), Field("content", Str("Hi")) >>),
    Obj(<< Field("type", Str("error")), Field("error", Str("boom")) >>),
    Obj(<< Field("type", Str("done")) >>) }

InitApi ==
  /\ ChatInit
  /\ SessionsIdle
  /\ DetectorIdle
  /\ ServiceIdle
  /\ \E body \in ValidBodies \cup InvalidBodies : \E configured \in BOOLEAN :
       api = [pc |-> "validate", body |-> body, configured |-> configured,
              statusCode |-> 200, json |-> "", headers |-> {}, written |-> <<>>,
              ended |-> FALSE, started |-> FALSE, run |-> "none"]

\* res.status(code).json({error: message})
JsonResponse(code, message) ==
  api' = [api EXCEPT !.pc = "done", !.statusCode = code, !.json = message,
                     !.headers = @ \cup {"Content-Type: application/json"},
                     !.ended = TRUE]

ApiFrame == UNCHANGED << chatVars, heap, runs, turns, detector, mcp >>

\* the LLM is looked at before the body
ChatValidatesAfterLLM ==
  /\ api.pc = "validate"
  /\ IF ~api.configured
     THEN JsonResponse(503, "LLM service not configured. Please configure via /api/config/llm")
     ELSE IF ~safeParse(api.body)
     THEN JsonResponse(400, "Invalid request")
     ELSE api' = [api EXCEPT !.pc = "configured"]
  /\ ApiFrame

\* lines 33-48
ChatValidates ==
  /\ api.pc = "validate"
  /\ IF ~safeParse(api.body)
     THEN JsonResponse(400, "Invalid request")
     ELSE api' = [api EXCEPT !.pc = "configured"]
  /\ ApiFrame

\* lines 51-56
ChatChecksLLM ==
  /\ api.pc = "configured"
  /\ IF ~api.configured
     THEN JsonResponse(503, "LLM service not configured. Please configure via /api/config/llm")
     ELSE api' = [api EXCEPT !.pc = "open"]
  /\ ApiFrame

\* lines 59-68: the headers are set and chatWithTools is called
ChatOpensStream ==
  /\ api.pc = "open"
  /\ api' = [api EXCEPT !.pc = "stream", !.started = TRUE,
                        !.headers = @ \cup {"Content-Type: text/event-stream",
                                            "Cache-Control: no-cache",
                                            "Connection: keep-alive"}]
  /\ ApiFrame

\* lines 68-69: the orchestrator yields a chunk
ChatWritesChunk ==
  /\ api.pc = "stream"
  /\ Len(api.written) < MaxFrames
  /\ \E chunk \in ApiChunks :
       api' = [api EXCEPT !.written = Append(@, Frame(StringifyFlat(chunk)))]
  /\ ApiFrame

\* lines 71-72: the orchestrator is done
ChatRunCompletes ==
  /\ api.pc = "stream"
  /\ api' = [api EXCEPT !.pc = "done", !.run = "completed",
                        !.written = Append(@, DoneFrame), !.ended = TRUE]
  /\ ApiFrame

\* lines 73-81: the orchestrator throws
ChatRunThrows ==
  /\ api.pc = "stream"
  /\ api' = [api EXCEPT !.pc = "done", !.run = "threw",
                        !.written = Append(@, ErrorFrame("boom")), !.ended = TRUE]
  /\ ApiFrame

NextApi ==
  \/ ChatValidates
  \/ ChatChecksLLM
  \/ ChatOpensStream
  \/ ChatWritesChunk
  \/ ChatRunCompletes
  \/ ChatRunThrows

SpecApi == InitApi /\ [][NextApi]_vars

(***************************************************************************)
(* MCPService, src/unnamed/part_006, on its own.  mcp.conns are the        *)
(* MCPConnection objects something still refers to, by reference;          *)
(* mcp.entries is the connections Map in insertion order, an entry holding *)
(* the reference of its object; mcp.calls are the calls in flight;         *)
(* mcp.settled tells which calls the last step settled and what the        *)
(* caller of each then saw; mcp.exposes tells whether the transport of a   *)
(* stdio server has the process property line 145 reads.                   *)
(***************************************************************************)
Servers == {"s1", "s2"}
\* the configuration: s1 is a stdio server, s2 an HTTP server
ServerType(serverId) == IF serverId = "s1" THEN "stdio" ELSE "http"
\* what listTools of the server answers, tagged at lines 152-157 and 247-252
DiscoveredTools(serverId) ==
  SelectSeq(Tools, LAMBDA t : t.serverId = serverId)

\* lines 108-113 and 206-211
NewConnection(serverId) ==
  [serverId |-> serverId, status |-> "connecting", tools |-> <<>>, error |-> "",
   process |-> "none", closed |-> FALSE]

\* no object
NoRef == <<>>

\* Map.get, Map.has, Map.set, Map.delete; NoRef is undefined
EntryPos(entries, serverId) ==
  IF \E i \in 1..Len(entries) : entries[i].k = serverId
  THEN CHOOSE i \in 1..Len(entries) : entries[i].k = serverId
  ELSE 0
MapGet(entries, serverId) ==
  IF EntryPos(entries, serverId) = 0 THEN NoRef
  ELSE entries[EntryPos(entries, serverId)].ref
MapSet(entries, serverId, ref) ==
  IF EntryPos(entries, serverId) = 0 THEN Append(entries, [k |-> serverId, ref |-> ref])
  ELSE [entries EXCEPT ![EntryPos(entries, serverId)].ref = ref]
MapDelete(entries, serverId) == SelectSeq(entries, LAMBDA e : e.k # serverId)
MapKeys(entries) == [i \in 1..Len(entries) |-> entries[i].k]

\* lines 380-390
RECURSIVE getAllTools(_, _)
getAllTools(conns, entries) ==
  IF entries = <<>> THEN <<>>
  ELSE (IF conns[Head(entries).ref].status = "connected"
        THEN conns[Head(entries).ref].tools ELSE <<>>)
       \o getAllTools(conns, Tail(entries))

\* lines 395-401
getToolsByServer(conns, entries, serverId) ==
  LET ref == MapGet(entries, serverId)
  IN IF ref = NoRef \/ conns[ref].status # "connected" THEN <<>> ELSE conns[ref].tools

\* lines 549-561; null is Null
getServerStatus(conns, entries, serverId) ==
  LET ref == MapGet(entries, serverId)
  IN IF ref = NoRef THEN Null
     ELSE [id |-> serverId, connected |-> conns[ref].status = "connected",
           toolCount |-> Len(conns[ref].tools), error |-> conns[ref].error]

\* lines 578-582
isServerConnected(conns, entries, serverId) ==
  LET ref == MapGet(entries, serverId)
  IN IF ref = NoRef THEN FALSE ELSE conns[ref].status = "connected"

\* what a caller sees of a server, and of the service, right after its call settled
Seen(conns, entries, serverId) ==
  [connected |-> isServerConnected(conns, entries, serverId),
   status |-> getServerStatus(conns, entries, serverId),
   tools |-> getToolsByServer(conns, entries, serverId),
   keys |-> MapKeys(entries),
   allTools |-> getAllTools(conns, entries)]

NotSeen == [connected |-> FALSE, status |-> Null, tools |-> <<>>, keys |-> <<>>,
            allTools |-> <<>>]

\* a call to the service: op is the method, parent the initialize or
\* shutdown call that made it, "" for a call from outside; enabled is what
\* getEnabledMCPServers answered to initialize at line 54
Call(op, serverId, parent) ==
  [op |-> op, id |-> serverId, parent |-> parent, pc |-> "start", ref |-> NoRef,
   state |-> "pending", short |-> FALSE, seen |-> NotSeen, enabled |-> <<>>]

InitService ==
  /\ ChatInit
  /\ SessionsIdle
  /\ DetectorIdle
  /\ ApiIdle
  /\ \E exposes \in BOOLEAN :
       mcp = [conns |-> <<>>, entries |-> <<>>, calls |-> <<>>, made |-> 0, once |-> {},
              settled |-> <<>>, exposes |-> exposes]

ServiceFrame == UNCHANGED << chatVars, heap, runs, turns, detector, api >>

\* a call settles: the caller goes on and looks at the service
Settle(m, c, state) ==
  [m EXCEPT !.calls[c].state = state, !.calls[c].pc = "done",
            !.calls[c].seen = Seen(m.conns, m.entries, m.calls[c].id)]

\* lines 67 and 373: Promise.all goes on once every promise of it has
\* settled; the catch handlers of lines 61 and 368 make each of them resolve
SettleParents(m) ==
  [m EXCEPT !.calls =
     [c \in 1..Len(m.calls) |->
        IF /\ m.calls[c].pc = "all"
           /\ \A d \in 1..Len(m.calls) :
                m.calls[d].parent = m.calls[c].op => m.calls[d].state # "pending"
        THEN [m.calls[c] EXCEPT !.state = "resolved", !.pc = "done",
                                !.seen = Seen(m.conns, m.entries, "")]
        ELSE m.calls[c]]]

\* the test of the status left out: an entry is enough to return
AlreadyConnectedAnyStatus(m, serverId) == MapGet(m.entries, serverId) # NoRef

\* only a connected entry is enough to return
AlreadyConnectedOnlyConnected(m, serverId) ==
  /\ MapGet(m.entries, serverId) # NoRef
  /\ m.conns[MapGet(m.entries, serverId)].status = "connected"

\* lines 96-103 and 195-201
AlreadyConnected(m, serverId) ==
  /\ MapGet(m.entries, serverId) # NoRef
  /\ m.conns[MapGet(m.entries, serverId)].status \in {"connected", "connecting"}

\* connectServer up to its first await, lines 91-142 and 190-243; configOk:
\* new URL(config.url) of line 217 does not throw
connectServer(m, serverId, parent, configOk) ==
  LET c == Len(m.calls) + 1
      ref == << serverId, CHOOSE n \in 1..(Cardinality(DOMAIN m.conns) + 1) :
                            /\ << serverId, n >> \notin DOMAIN m.conns
                            /\ \A k \in 1..(n - 1) : << serverId, k >> \in DOMAIN m.conns >>
      called == [m EXCEPT !.calls = Append(@, Call("connectServer", serverId, parent))]
  IN IF AlreadyConnected(m, serverId)
     THEN Settle([called EXCEPT !.calls[c].short = TRUE], c, "resolved")
     ELSE IF ServerType(serverId) = "http" /\ ~configOk
     THEN Settle(called, c, "rejected")
     ELSE [called EXCEPT
             !.conns = [r \in DOMAIN @ \cup {ref} |->
                          IF r = ref THEN NewConnection(serverId) ELSE @[r]],
             !.entries = MapSet(@, serverId, ref),
             !.calls[c].pc = "connect",
             !.calls[c].ref = ref]

\* disconnectServer up to its first await, lines 306-319
disconnectServer(m, serverId, parent) ==
  LET c == Len(m.calls) + 1
      called == [m EXCEPT !.calls = Append(@, Call("disconnectServer", serverId, parent))]
  IN IF MapGet(m.entries, serverId) = NoRef
     THEN Settle(called, c, "resolved")
     ELSE [called EXCEPT !.calls[c].pc = "close",
                         !.calls[c].ref = MapGet(m.entries, serverId)]

\* lines 57-65: connectServer for every enabled server, one after the other
RECURSIVE ConnectAll(_, _, _, _)
ConnectAll(m, servers, parent, configOk) ==
  IF servers = <<>> THEN m
  ELSE ConnectAll(connectServer(m, Head(servers), parent, configOk), Tail(servers),
                  parent, configOk)

\* lines 366-371: disconnectServer for every key of the map
RECURSIVE DisconnectAll(_, _, _)
DisconnectAll(m, keys, parent) ==
  IF keys = <<>> THEN m
  ELSE DisconnectAll(disconnectServer(m, Head(keys), parent), Tail(keys), parent)

\* what getEnabledMCPServers can answer
EnabledServers == { <<>>, << "s1" >>, << "s2" >>, << "s1", "s2" >> }

\* a step begins: nothing settled in it yet
Begin(m) == [m EXCEPT !.settled = <<>>]

\* a step ends: Promise.all goes on, the settled calls leave mcp.calls, and
\* the objects nothing refers to any more are forgotten
Referred(m) ==
  {m.entries[i].ref : i \in 1..Len(m.entries)}
  \cup {m.calls[c].ref : c \in 1..Len(m.calls)}
  \cup {r \in DOMAIN m.conns : m.exposes /\ m.conns[r].process = "alive"}

End(m) ==
  LET all == SettleParents(m)
      left == [all EXCEPT !.settled = SelectSeq(all.calls, LAMBDA c : c.state # "pending"),
                          !.calls = SelectSeq(all.calls, LAMBDA c : c.state = "pending")]
  IN [left EXCEPT !.conns = [r \in DOMAIN @ \cap Referred(left) |-> @[r]]]

\* a call from outside
Outside(m, op) ==
  [Begin(m) EXCEPT !.made = @ + 1, !.once = @ \cup ({op} \cap {"initialize", "shutdown"})]

\* somebody calls connectServer
CallConnectServer ==
  /\ mcp.made < MaxCalls
  /\ \E serverId \in Servers :
     \E configOk \in IF ServerType(serverId) = "http" THEN BOOLEAN ELSE {TRUE} :
       mcp' = End(connectServer(Outside(mcp, "connectServer"), serverId, "", configOk))
  /\ ServiceFrame

\* somebody calls disconnectServer
CallDisconnectServer ==
  /\ mcp.made < MaxCalls
  /\ \E serverId \in Servers :
       mcp' = End(disconnectServer(Outside(mcp, "disconnectServer"), serverId, ""))
  /\ ServiceFrame

\* initialize, lines 53-67: the application calls it once, at startup,
\* before it listens for the requests that make the other calls
CallInitialize ==
  /\ mcp.made = 0
  /\ \E servers \in EnabledServers : \E configOk \in BOOLEAN :
       LET called == [Outside(mcp, "initialize") EXCEPT
                        !.calls = Append(@, [Call("initialize", "", "") EXCEPT
                                               !.pc = "all", !.enabled = servers])]
       IN mcp' = End(ConnectAll(called, servers, "initialize", configOk))
  /\ ServiceFrame

\* shutdown, lines 363-373, called once during application shutdown
CallShutdown ==
  /\ mcp.made < MaxCalls
  /\ "shutdown" \notin mcp.once
  /\ LET called == [Outside(mcp, "shutdown") EXCEPT
                      !.calls = Append(@, [Call("shutdown", "", "") EXCEPT !.pc = "all"])]
     IN mcp' = End(DisconnectAll(called, MapKeys(mcp.entries), "shutdown"))
  /\ ServiceFrame

\* every connection of the map is marked, not only the one of the call
ConnectFailedMarksAll(m, c, message) ==
  Settle([m EXCEPT !.conns = [r \in DOMAIN @ |->
                                [@[r] EXCEPT !.status = "error", !.error = message]]],
         c, "rejected")

\* the catch blocks of lines 166-183 and 260-268: the connection object of
\* the call, in the map or not, is marked, its process if any is sent a
\* signal, and the call rejects
ConnectFailed(m, c, message) ==
  LET ref == m.calls[c].ref
  IN Settle([m EXCEPT !.conns[ref].status = "error", !.conns[ref].error = message],
            c, "rejected")

\* lines 142-148 and 243: client.connect settles, having started the
\* process of a stdio server; line 145 reads the process off the transport
\* and the listeners are set if the transport has one to show (mcp.exposes)
ClientConnectSettles ==
  /\ \E c \in 1..Len(mcp.calls) : \E ok \in BOOLEAN :
       /\ mcp.calls[c].pc = "connect"
       /\ ok => ~mcp.conns[mcp.calls[c].ref].closed
       /\ mcp' = End(
            IF ok
            THEN [Begin(mcp) EXCEPT
                    !.calls[c].pc = "list",
                    !.conns[mcp.calls[c].ref].process =
                       IF ServerType(mcp.calls[c].id) = "stdio"
                       THEN "alive" ELSE "none"]
            ELSE ConnectFailed(Begin(mcp), c, "failed"))
  /\ ServiceFrame

\* lines 151-162 and 246-257: client.listTools settles; a closed client
\* and a server whose process has exited do not answer
ListToolsSettles ==
  /\ \E c \in 1..Len(mcp.calls) : \E ok \in BOOLEAN :
       /\ mcp.calls[c].pc = "list"
       /\ ok => /\ ~mcp.conns[mcp.calls[c].ref].closed
                /\ mcp.conns[mcp.calls[c].ref].process # "exited"
       /\ mcp' = End(
            IF ok
            THEN Settle([Begin(mcp) EXCEPT
                           !.conns[mcp.calls[c].ref].status = "connected",
                           !.conns[mcp.calls[c].ref].tools =
                              DiscoveredTools(mcp.calls[c].id)],
                        c, "resolved")
            ELSE ConnectFailed(Begin(mcp), c, "failed"))
  /\ ServiceFrame

\* lines 317-344 from the await on: the client is closed, or close threw
\* and the error was logged; the process is sent SIGTERM; the key is deleted
DisconnectFinishes(m, c) ==
  LET ref == m.calls[c].ref
  IN Settle([m EXCEPT !.conns[ref].closed = TRUE,
                      !.entries = MapDelete(@, m.calls[c].id)],
            c, "resolved")

ClientCloseSettles ==
  /\ \E c \in 1..Len(mcp.calls) :
       /\ mcp.calls[c].pc = "close"
       /\ mcp' = End(DisconnectFinishes(Begin(mcp), c))
  /\ ServiceFrame

\* what the listeners of lines 275-290 do to the entry the map holds for
\* the server id of the process
OnExit(m, serverId) ==
  LET ref == MapGet(m.entries, serverId)
  IN IF ref # NoRef /\ m.conns[ref].status = "connected"
     THEN [m EXCEPT !.conns[ref].status = "error",
                    !.conns[ref].error = "Process exited with code 1"]
     ELSE m

OnError(m, serverId) ==
  LET ref == MapGet(m.entries, serverId)
  IN IF ref # NoRef
     THEN [m EXCEPT !.conns[ref].status = "error", !.conns[ref].error = "process error"]
     ELSE m

\* the process of a connection exits, by itself or killed; the listener
\* runs if it was set
ProcessExits ==
  /\ \E k \in DOMAIN mcp.conns :
       /\ mcp.conns[k].process = "alive"
       /\ mcp' = End(IF mcp.exposes
                     THEN OnExit([Begin(mcp) EXCEPT !.conns[k].process = "exited"],
                                 mcp.conns[k].serverId)
                     ELSE [Begin(mcp) EXCEPT !.conns[k].process = "exited"])
  /\ ServiceFrame

\* the process of a connection emits error; only the first error in a row
\* makes a difference
ProcessErrors ==
  /\ \E k \in DOMAIN mcp.conns :
       /\ mcp.conns[k].process = "alive"
       /\ mcp.exposes
       /\ OnError(mcp, mcp.conns[k].serverId) # mcp
       /\ mcp' = End(OnError(Begin(mcp), mcp.conns[k].serverId))
  /\ ServiceFrame

NextService ==
  \/ CallConnectServer
  \/ CallDisconnectServer
  \/ CallInitialize
  \/ CallShutdown
  \/ ClientConnectSettles
  \/ ListToolsSettles
  \/ ClientCloseSettles
  \/ ProcessExits
  \/ ProcessErrors

SpecService == InitService /\ [][NextService]_vars

(***************************************************************************)
(* Properties                                                              *)
(***************************************************************************)
EventsOfType(t) == {i \in 1..Len(events) : events[i].type = t}
CountEvents(t) == Cardinality(EventsOfType(t))

StreamErrorEvents == {i \in EventsOfType("error") : events[i].error \in StreamErrors}
SafetyEvents == {i \in EventsOfType("error") : events[i].error = SafetyMessage}

AssistantIdx ==
  {i \in 1..Len(conversationHistory) : conversationHistory[i].role = "assistant"}
ToolTurnIdx == {i \in AssistantIdx : conversationHistory[i].tool_calls.present}

Finished == pc = "done"
LoopLeft == pc \in {"after", "final", "done"}

\* C1: a finished run has emitted exactly one done event and it is the last
\* event of the stream, however the run ended; an unfinished run has emitted
\* none, so no event of any type ever follows done.
C1_ExactlyOneDoneLast ==
  /\ \A i \in EventsOfType("done") : i = Len(events) /\ Finished
  /\ Finished => Len(events) > 0 /\ events[Len(events)].type = "done"

C1_Witness ==
  /\ Finished
  /\ StreamErrorEvents # {}
  /\ iteration < MAX_ITERATIONS
  /\ CountEvents("done") = 1

\* C2: at most 10 model turns are opened in a run; when every opened turn
\* ended in a request for at least one tool call, the loop is left after
\* exactly 10 turns and the stream holds exactly one error event, the safety
\* message, immediately followed by done.
C2_IterationCap ==
  /\ iteration <= MAX_ITERATIONS
  /\ Cardinality(AssistantIdx) <= MAX_ITERATIONS
  /\ (LoopLeft /\ Cardinality(ToolTurnIdx) = iteration) => iteration = MAX_ITERATIONS
  /\ (Finished /\ Cardinality(ToolTurnIdx) = iteration) =>
       /\ CountEvents("error") = 1
       /\ Len(events) >= 2
       /\ events[Len(events) - 1].type = "error"
       /\ events[Len(events) - 1].error = SafetyMessage
       /\ events[Len(events)].type = "done"

C2_Witness ==
  /\ Finished
  /\ Cardinality(ToolTurnIdx) = MAX_ITERATIONS
  /\ \A k \in 1..Len(outcomes) : outcomes[k].kind = "returned"

\* C3: when the model stream raises an exception in any iteration, the
\* stream holds exactly one error event, nothing but done follows it, and no
\* further turn is opened.
C3_StreamErrorOnce ==
  \A i \in StreamErrorEvents :
    /\ CountEvents("error") = 1
    /\ \A j \in (i + 1)..Len(events) : events[j].type = "done"
    /\ LoopLeft

RECURSIVE EventContent(_)
EventContent(es) ==
  IF es = <<>> THEN ""
  ELSE (IF Head(es).type = "content" THEN Head(es).content ELSE "")
       \o EventContent(Tail(es))

FirstReply == Len(CallerMessages) + 1

FirstTurnIsFinal ==
  /\ Len(conversationHistory) >= FirstReply
  /\ conversationHistory[FirstReply].role = "assistant"
  /\ ~conversationHistory[FirstReply].tool_calls.present

\* C4: when the first model turn ends without a tool call, its assistant
\* message is the only message appended to history, no second turn is ever
\* opened, and the event stream consists of the turn's content events
\* followed by done: no tool_execution_start, tool_execution_result,
\* chart_data or error event.
C4_ContentOnlyFirstTurn ==
  FirstTurnIsFinal =>
    /\ iteration = 1
    /\ Len(conversationHistory) = FirstReply
    /\ pc \in {"loop", "after", "final", "done"}
    /\ ~continueLoop
    /\ \A i \in 1..Len(events) : events[i].type \in {"content", "done"}
    /\ \A i \in EventsOfType("done") : i = Len(events)
    /\ Finished => events[Len(events)].type = "done"
    /\ conversationHistory[FirstReply].content = EventContent(events)

C4_Witness ==
  /\ FirstTurnIsFinal
  /\ finishReason = "stop"
  /\ Finished
  /\ CountEvents("content") = 2

TurnEvents == SubSeq(events, turnBase + 1, Len(events))

TurnThrew == \E i \in StreamErrorEvents : i > turnBase

LastAssistant ==
  conversationHistory[CHOOSE i \in AssistantIdx : \A j \in AssistantIdx : j <= i]

\* C9: the content events of a turn are the stream's content fragments in
\* arrival order, none held back: at every moment their concatenation is the
\* content accumulated so far, and once the turn's stream has ended it is the
\* content of the turn's assistant message.
C9_ContentInArrivalOrder ==
  /\ iteration > 0 => EventContent(TurnEvents) = contentBuffer
  /\ (iteration > 0 /\ pc # "stream" /\ ~TurnThrew) =>
       /\ AssistantIdx # {}
       /\ LastAssistant.content = EventContent(TurnEvents)
  /\ \A i \in EventsOfType("content") : events[i].content # ""

C9_Witness ==
  /\ pc = "for"
  /\ EventContent(TurnEvents) = "Hiok"
  /\ Cardinality({i \in EventsOfType("content") : i > turnBase}) = 2
  /\ LastAssistant.content = "Hiok"

ResultEvents == SelectSeq(events, LAMBDA e : e.type = "tool_execution_result")
ToolMessages == SelectSeq(conversationHistory, LAMBDA m : m.role = "tool")
Positions(t) == SelectSeq([i \in 1..Len(events) |-> i], LAMBDA i : events[i].type = t)

FailureKinds ==
  {"unknown_tool", "invalid_arguments", "not_connected", "timeout", "provider_throws"}

\* tool calls whose execution is over, result event included
Completed == IF pc = "charts" THEN Len(outcomes) - 1 ELSE Len(outcomes)

InToolPhase == pc \in {"for", "exec", "await", "charts"}

\* every tool call of every tool turn has its tool-role message, in call order
EveryCallAnswered ==
  \A p \in ToolTurnIdx :
    LET calls == conversationHistory[p].tool_calls.list
    IN /\ p + Len(calls) <= Len(conversationHistory)
       /\ \A c \in 1..Len(calls) :
            /\ conversationHistory[p + c].role = "tool"
            /\ conversationHistory[p + c].tool_call_id = calls[c].id

\* the loop is not left right after a tool turn unless the cap is reached
NextTurnOpened ==
  LoopLeft => (iteration > Cardinality(ToolTurnIdx) \/ iteration = MAX_ITERATIONS)

\* C5: a tool call that fails (timeout, unknown tool, unparsable arguments,
\* server not connected, provider exception) yields a tool_execution_result
\* event with isError = TRUE and a tool-role message with the call's id; no
\* call's failure stops the turn's remaining calls, and after the turn the
\* next model turn is opened unless the cap is reached.
C5_ToolFailureIsolated ==
  /\ Len(ResultEvents) = Completed
  /\ Len(ToolMessages) = Completed
  /\ \A k \in 1..Completed :
       /\ ResultEvents[k].toolCallId = outcomes[k].id
       /\ ToolMessages[k].tool_call_id = outcomes[k].id
       /\ outcomes[k].kind \in FailureKinds => ResultEvents[k].isError
  /\ ~InToolPhase => EveryCallAnswered
  /\ NextTurnOpened
  /\ CountEvents("error") = Cardinality(StreamErrorEvents) + Cardinality(SafetyEvents)

C5_Witness ==
  /\ Finished
  /\ iteration = 2
  /\ Len(outcomes) = 2
  /\ outcomes[1].kind = "provider_throws"
  /\ outcomes[2].kind = "not_connected"
  /\ Len(conversationHistory) = FirstReply + 3
  /\ conversationHistory[FirstReply + 3].role = "assistant"

\* C6: a provider call still pending when the timer fires yields a
\* tool_execution_result event with isError = TRUE and a tool-role message
\* carrying the timeout error; the calls after it and the next iteration
\* proceed.
C6_TimeoutReported ==
  /\ \A k \in 1..Len(outcomes) :
       outcomes[k].kind = "timeout" =>
         /\ k <= Len(ResultEvents)
         /\ ResultEvents[k].isError
         /\ ResultEvents[k].toolCallId = outcomes[k].id
         /\ k <= Len(ToolMessages)
         /\ ToolMessages[k].tool_call_id = outcomes[k].id
         /\ ToolMessages[k].content =
              "Error executing " \o ResultEvents[k].toolName \o ": " \o TimeoutMessage
  /\ (timeouts > 0 /\ ~InToolPhase) => EveryCallAnswered
  /\ timeouts > 0 => NextTurnOpened
  /\ abandoned <= timeouts

C6_Witness ==
  /\ Finished
  /\ Len(outcomes) >= 3
  /\ outcomes[1].kind = "timeout"
  /\ outcomes[2].kind = "returned"
  /\ iteration >= 2
  /\ abandoned = 1

TurnStarts == SelectSeq(TurnEvents, LAMBDA e : e.type = "tool_execution_start")

\* C7: tool calls run one after the other in the order of the turn's list:
\* between two tool_execution_start events lies the tool_execution_result of
\* the first, the starts of a turn follow the list, and the loop never
\* awaits more than one provider call.
C7_Sequential ==
  /\ Cardinality(awaited) <= 1
  /\ awaited # {} => pc = "await" /\ awaited = {toolIdx}
  /\ \A i, j \in EventsOfType("tool_execution_start") :
       i < j => \E k \in (i + 1)..(j - 1) :
                  /\ events[k].type = "tool_execution_result"
                  /\ events[k].toolCallId = events[i].toolCallId
  /\ Len(TurnStarts) <= Len(toolCalls)
  /\ \A k \in 1..Len(TurnStarts) :
       /\ TurnStarts[k].toolCallId = toolCalls[k].id
       /\ TurnStarts[k].toolName = toolCalls[k].name
  /\ InToolPhase =>
       Len(TurnStarts) = (IF pc = "for" THEN toolIdx - 1 ELSE toolIdx)

C7_Witness ==
  /\ pc = "await"
  /\ toolIdx = 2
  /\ awaited = {2}
  /\ abandoned = 1
  /\ Len(TurnStarts) = 2

\* C8: the chart_data events of a tool call lie between its
\* tool_execution_start and its tool_execution_result, and are out before its
\* tool-role message is appended; a result with isError = TRUE and a failed
\* call have no chart_data event.
C8_ChartsBeforeResult ==
  /\ \A i \in EventsOfType("chart_data") :
       /\ i > 1
       /\ events[i - 1].type \in {"tool_execution_start", "chart_data"}
       /\ i < Len(events) => events[i + 1].type \in {"chart_data", "tool_execution_result"}
       /\ i = Len(events) => pc = "charts"
  /\ pc = "charts" => Len(ToolMessages) = Len(outcomes) - 1
  /\ LET pos == Positions("tool_execution_result")
         start == Positions("tool_execution_start")
         msgs == ToolMessages
     IN \A k \in 1..Len(pos) :
          /\ k <= Len(start)
          /\ start[k] < pos[k]
          /\ \A j \in (start[k] + 1)..(pos[k] - 1) : events[j].type = "chart_data"
          /\ (events[pos[k]].isError \/ outcomes[k].kind # "returned") =>
               pos[k] = start[k] + 1
          /\ k <= Len(msgs)
          /\ msgs[k].nCharts = pos[k] - 1 - start[k]

C8_Witness ==
  /\ Len(ResultEvents) = 1
  /\ ~ResultEvents[1].isError
  /\ CountEvents("chart_data") = 2
  /\ ToolMessages[1].nCharts = 2

\* a step that pulls from the model stream or opens a new turn
ConsumesStream == (pc = "stream" /\ nChunks' # nChunks) \/ (pc = "loop" /\ pc' = "stream")
\* a step that starts a tool execution
InitiatesTool ==
  \/ Len(SelectSeq(events', LAMBDA e : e.type = "tool_execution_start"))
       > Len(SelectSeq(events, LAMBDA e : e.type = "tool_execution_start"))
  \/ ~(awaited' \subseteq awaited)

\* C10: once the caller has disconnected, the orchestration consumes nothing
\* more from the model stream and starts no further tool execution.
C10_StopsAfterDisconnect ==
  [][~clientConnected => ~ConsumesStream /\ ~InitiatesTool]_vars

(***************************************************************************)
(* The accumulator, stated on the recorded stream                          *)
(***************************************************************************)
RECURSIVE DeltasOfChunks(_)
DeltasOfChunks(chunks) ==
  IF chunks = <<>> THEN <<>>
  ELSE (IF Head(chunks).hasToolCalls THEN Head(chunks).tool_calls ELSE <<>>)
       \o DeltasOfChunks(Tail(chunks))

DeliveredDeltas == DeltasOfChunks(delivered)
DeltasOf(idx) == SelectSeq(DeliveredDeltas, LAMBDA d : d.index = idx)

\* the indexes in the order in which each appeared first
IndexOrder ==
  LET ds == DeliveredDeltas
      firsts == SelectSeq([i \in 1..Len(ds) |-> i],
                          LAMBDA i : \A j \in 1..(i - 1) : ds[j].index # ds[i].index)
  IN [k \in 1..Len(firsts) |-> ds[firsts[k]].index]

IdsOf(idx) == {DeltasOf(idx)[i].id : i \in 1..Len(DeltasOf(idx))} \ {""}
NamesOf(idx) == {DeltasOf(idx)[i].name : i \in 1..Len(DeltasOf(idx))} \ {""}
Resolved(idx) == IdsOf(idx) # {} /\ NamesOf(idx) # {}
ResolvedOrder == SelectSeq(IndexOrder, Resolved)

RECURSIVE Fragments(_)
Fragments(ds) == IF ds = <<>> THEN "" ELSE Head(ds).arguments \o Fragments(Tail(ds))

StreamEnded == pc # "stream"

\* C11: when the stream has ended, the turn's tool-call list has exactly one
\* entry for every index that received a non-empty id and a non-empty
\* function name, and no entry for any other index.
C11_UnresolvedDropped ==
  StreamEnded =>
    /\ Len(toolCalls) = Len(ResolvedOrder)
    /\ \A k \in 1..Len(toolCalls) :
         /\ k <= Len(ResolvedOrder)
         /\ toolCalls[k].id \in IdsOf(ResolvedOrder[k])
         /\ toolCalls[k].name \in NamesOf(ResolvedOrder[k])

C11_Witness ==
  /\ StreamEnded
  /\ Len(IndexOrder) = 2
  /\ Len(ResolvedOrder) = 1
  /\ IdsOf(IndexOrder[1]) # {} /\ NamesOf(IndexOrder[1]) = {}
  /\ Len(toolCalls) = 1

\* C12 as stated: the arguments string of every materialized tool call is
\* the concatenation of its index's argument fragments in delivery order.
C12_ArgumentsAreConcatenation ==
  StreamEnded =>
    \A k \in 1..Len(toolCalls) :
      k <= Len(ResolvedOrder) =>
        toolCalls[k].arguments = Fragments(DeltasOf(ResolvedOrder[k]))

\* C12 amended: the arguments string of every materialized tool call is the
\* concatenation of its index's argument fragments in delivery order, however
\* the text is split and interleaved, and "{}" when that concatenation is
\* empty.
C12_ArgumentsConcatenatedOrDefault ==
  StreamEnded =>
    \A k \in 1..Len(toolCalls) :
      k <= Len(ResolvedOrder) =>
        LET text == Fragments(DeltasOf(ResolvedOrder[k]))
        IN toolCalls[k].arguments = IF text = "" THEN "{}" ELSE text

C12_Witness ==
  /\ StreamEnded
  /\ Len(delivered) = 3
  /\ delivered[1] = RawChunk("", TRUE, << Delta(0, "c1", "t1", "{") >>, FALSE)
  /\ delivered[2].hasToolCalls /\ delivered[2].tool_calls[1].index = 1
  /\ delivered[3] = RawChunk("", TRUE, << Delta(0, "", "", "}") >>, FALSE)
  /\ Len(toolCalls) >= 1
  /\ toolCalls[1].arguments = "{}"

\* C13: the assistant message of a turn carries the tool-call list when at
\* least one index resolved, and no tool_calls field, never an empty list,
\* when none did.
C13_ToolCallsAbsentWhenEmpty ==
  StreamEnded =>
    LET m == conversationHistory[Len(conversationHistory)]
    IN /\ m.role = "assistant"
       /\ m.tool_calls.present <=> Len(ResolvedOrder) > 0
       /\ m.tool_calls.present => m.tool_calls.list = toolCalls /\ Len(toolCalls) > 0
       /\ ~m.tool_calls.present => m.tool_calls = NoToolCalls

C13_Witness ==
  /\ StreamEnded
  /\ finishReason = "tool_calls"
  /\ Len(IndexOrder) > 0
  /\ ~conversationHistory[Len(conversationHistory)].tool_calls.present

(***************************************************************************)
(* The tool executor                                                       *)
(***************************************************************************)
CallHandled == pc # "exec"
KnownServer(toolName) ==
  {Tools[i].serverId : i \in {j \in 1..Len(Tools) : Tools[j].name = toolName}}

\* C14: the provider is called for a tool call only if the call's name is
\* in the known-tools list and its arguments parse as JSON; a call with an
\* unknown name or unparsable arguments causes no provider call; and the
\* provider call goes to the serverId of the tool's descriptor.
C14_DispatchAfterResolveAndParse ==
  /\ \A i \in 1..Len(dispatches) :
       /\ KnownServer(dispatches[i].name) # {}
       /\ dispatches[i].arguments \in {"{}", "{\"a\":1}"}
       /\ dispatches[i].serverId \in KnownServer(dispatches[i].name)
  /\ (CallHandled /\ (toolCalls[1].name = "tx" \/ toolCalls[1].arguments = "{")) =>
       dispatches = <<>>
  /\ Len(dispatches) <= 1

C14_Witness ==
  /\ CallHandled
  /\ toolCalls[1].name = "t2"
  /\ dispatches = << [serverId |-> "s2", name |-> "t2", arguments |-> "{\"a\":1}"] >>

Settled == pc = "charts" /\ Len(outcomes) = 1

\* C15: every ToolResult that MCPService.executeTool returns has at least
\* one content item and every item of it has a type tag, whatever the
\* provider did.
C15_ContentNeverEmpty ==
  Settled =>
    /\ Len(result.content) > 0
    /\ \A i \in 1..Len(result.content) : result.content[i].type # ""

C15_Witness ==
  /\ Settled
  /\ outcomes[1].raw.outcome = "returns"
  /\ outcomes[1].raw.shape = "list"
  /\ outcomes[1].raw.items = << UntypedItem, UntypedItem >>
  /\ Len(result.content) = 1

\* C16: the returned ToolResult has isError true when the provider result
\* has no content field, when content is not a list, when every content
\* item is invalid and when the provider call throws; false when the
\* content list is empty; otherwise the provider's isError flag as a boolean.
C16_ErrorFlag ==
  Settled =>
    LET raw == outcomes[1].raw
        typed == {i \in 1..Len(raw.items) : raw.items[i].type # ""}
    IN result.isError =
         IF raw.outcome = "throws" \/ raw.shape \in {"missing", "nonArray"} THEN TRUE
         ELSE IF raw.items = <<>> THEN FALSE
         ELSE IF typed = {} THEN TRUE
         ELSE raw.isError = "true"

C16_Witness ==
  /\ Settled
  /\ outcomes[1].raw = RawResult("returns", "list", <<>>, "true")
  /\ ~result.isError

(***************************************************************************)
(* Runs side by side                                                       *)
(***************************************************************************)
\* what a run on its own has appended and emitted after the given turns
RECURSIVE AloneHistory(_)
AloneHistory(kinds) ==
  IF kinds = <<>> THEN CallerMessages
  ELSE LET before == AloneHistory(SubSeq(kinds, 1, Len(kinds) - 1))
           k == kinds[Len(kinds)]
       IN IF k = "tool"
          THEN before \o << [role |-> "assistant", content |-> "",
                              tool_calls |-> [present |-> TRUE,
                                list |-> << [id |-> "c1", name |-> "t1", arguments |-> "{}"] >>],
                              tool_call_id |-> "", nCharts |-> 0],
                             [role |-> "tool", content |-> "42", tool_calls |-> NoToolCalls,
                              tool_call_id |-> "c1", nCharts |-> 0] >>
          ELSE IF k = "final"
          THEN Append(before, [role |-> "assistant", content |-> "Hi",
                               tool_calls |-> NoToolCalls, tool_call_id |-> "", nCharts |-> 0])
          ELSE before

RECURSIVE AloneEvents(_)
AloneEvents(kinds) ==
  IF kinds = <<>> THEN <<>>
  ELSE LET before == AloneEvents(SubSeq(kinds, 1, Len(kinds) - 1))
           k == kinds[Len(kinds)]
       IN IF k = "tool"
          THEN before \o << Event("tool_execution_start", "", "t1", "c1", FALSE, ""),
                             Event("tool_execution_result", "", "t1", "c1", FALSE, "") >>
          ELSE IF k = "final"
          THEN Append(before, Event("content", "Hi", "", "", FALSE, ""))
          ELSE Append(before, Event("error", "", "", "", FALSE, "Connection error."))

AloneEnd(kinds) ==
  (IF Len(kinds) >= MAX_ITERATIONS
   THEN << Event("error", "", "", "", FALSE, SafetyMessage) >> ELSE <<>>)
  \o << Event("done", "", "", "", FALSE, "") >>

BetweenTurns(r) == runs[r].pc \in {"loop", "after", "done"}

\* C17: whenever a run is between two turns or has ended, its conversation
\* history, iteration counter and event stream are those of a run that took
\* the same turns on its own, whatever the other run did in between; and the
\* messages array the caller passed in is never changed.
C17_RunsIndependent ==
  /\ heap["caller"] = CallerMessages
  /\ \A r \in Runs :
       BetweenTurns(r) =>
         /\ heap[runs[r].history] = AloneHistory(turns[r])
         /\ runs[r].iteration = Len(turns[r])
         /\ runs[r].events =
              AloneEvents(turns[r]) \o (IF runs[r].pc = "done" THEN AloneEnd(turns[r]) ELSE <<>>)

C17_Witness ==
  /\ runs["a"].pc = "done" /\ runs["b"].pc = "done"
  /\ turns["a"] = << "tool", "tool", "final" >>
  /\ turns["b"] = << "tool", "throws" >>
  /\ Len(heap["a"]) = 6 /\ Len(heap["b"]) = 3

(***************************************************************************)
(* The chart detector on its own                                           *)
(***************************************************************************)
\* the one candidate list of the result handed in, and what
\* analyzeDataForChart is given of it
DetectorList == AllCandidateLists(detector.given.content)[1]
FlatList == flattenNestedArrayData(DetectorList)

KeysIn(list) ==
  UNION { { Keys(list[i])[j] : j \in 1..Len(Keys(list[i])) } :
          i \in { n \in 1..Len(list) : list[n].t = "object" } }

\* key holds a value of the type in every record of the list
KeyHolds(list, key, type) ==
  \A i \in 1..Len(list) : list[i].t = "object" /\ Get(list[i], key).t = type

NoKeyHolds(list, type) == \A key \in KeysIn(list) : ~KeyHolds(list, key, type)

WithoutIds(charts) ==
  [i \in 1..Len(charts) |->
     [type |-> charts[i].type, title |-> charts[i].title, data |-> charts[i].data,
      config |-> charts[i].config]]

DateStepsRecord(row) ==
  /\ row.t = "object"
  /\ Len(row.v) = 2
  /\ Get(row, "date").t = "string"
  /\ Get(row, "steps").t = "number"

\* C20: for a result that is no error and whose one candidate list is two
\* records of a string date and a numeric steps, and a query containing
\* "steps", the detector returns exactly one chart, with xKey date, yKeys
\* [steps] and kind area
C20_DateStepsExample ==
  \A c \in 1..Len(detector.calls) :
    (/\ ~detector.given.isError
     /\ Len(DetectorList) = 2
     /\ \A i \in 1..Len(DetectorList) : DateStepsRecord(DetectorList[i])
     /\ Test("steps", detector.userQuery))
    => /\ Len(detector.calls[c]) = 1
       /\ detector.calls[c][1].config.xKey = "date"
       /\ detector.calls[c][1].config.yKeys = << "steps" >>
       /\ detector.calls[c][1].type = "area"

\* the example of the claim went through the detector: the two records with
\* steps 100 and 200, in the text of the item, and the query "how many steps"
C20_Witness ==
  /\ Len(detector.calls) >= 1
  /\ ~detector.given.isError
  /\ detector.given.content[1].json = Arr(StepsRows)
  /\ detector.userQuery = "how many steps"
  /\ Len(detector.calls[1]) = 1
  /\ detector.calls[1][1].data = StepsRows

(***************************************************************************)
(* The accumulator, continued                                              *)
(***************************************************************************)
\* C21: when the stream has ended, no two tool calls of the turn's tool-call
\* list have the same id, whatever deltas the stream delivered
C21_IdsUniqueInTurn ==
  StreamEnded =>
    \A i, j \in 1..Len(toolCalls) : i # j => toolCalls[i].id # toolCalls[j].id

(***************************************************************************)
(* The tool executor, continued                                            *)
(***************************************************************************)
LastMessage == conversationHistory[Len(conversationHistory)]

\* C27: MCPService.executeTool, reached with a server id that has no entry
\* in the connections map or whose status is not connected, rejects and the
\* provider's call-tool operation is not invoked; with no entry the message
\* is 'MCP server <id> not found'
C27_ExecuteToolRejectsUnconnected ==
  LET tc == toolCalls[1]
  IN \A s \in KnownServer(tc.name) :
       (/\ CallHandled
        /\ tc.arguments # "{"
        /\ (s \notin DOMAIN connections \/ connections[s] # "connected"))
       => /\ dispatches = <<>>
          /\ Len(outcomes) = 1
          /\ outcomes[1].kind = "not_connected"
          /\ LastMessage.role = "tool"
          /\ s \notin DOMAIN connections =>
               LastMessage.content
                 = "Error executing " \o tc.name \o ": MCP server " \o s \o " not found"

\* a call for a server in status connecting and a call for a server with no
\* entry were rejected
C27_Witness ==
  /\ CallHandled
  /\ toolCalls[1].arguments = "{}"
  /\ dispatches = <<>>
  /\ \/ toolCalls[1].name = "t2" /\ "s2" \notin DOMAIN connections
     \/ toolCalls[1].name = "t1" /\ connections["s1"] = "connecting"
  /\ outcomes[1].kind = "not_connected"

(***************************************************************************)
(* The history handed to the model                                         *)
(***************************************************************************)
\* h is a sequence of tool turns: an assistant message with its tool calls,
\* then one tool-role message for each of these calls, in their order, with
\* the id of the call
RECURSIVE ToolTurns(_)
ToolTurns(h) ==
  \/ h = <<>>
  \/ /\ h[1].role = "assistant"
     /\ h[1].tool_calls.present
     /\ LET calls == h[1].tool_calls.list
        IN /\ Len(calls) > 0
           /\ Len(h) >= 1 + Len(calls)
           /\ \A k \in 1..Len(calls) :
                /\ h[1 + k].role = "tool"
                /\ h[1 + k].tool_call_id = calls[k].id
           /\ ToolTurns(SubSeq(h, Len(calls) + 2, Len(h)))

TurnOpened == pc = "stream"

IsPrefix(a, b) == Len(a) <= Len(b) /\ SubSeq(b, 1, Len(a)) = a

\* C29: whenever a model turn is opened the history is the caller's messages
\* followed by the earlier tool turns, each its assistant message and then
\* one tool-role message per tool call of it, in call order and with the
\* call's id; and the history only ever grows at its end
C29_HistoryStructure ==
  /\ [](TurnOpened =>
          /\ IsPrefix(CallerMessages, conversationHistory)
          /\ ToolTurns(SubSeq(conversationHistory, Len(CallerMessages) + 1,
                              Len(conversationHistory))))
  /\ [][IsPrefix(conversationHistory, conversationHistory')]_vars

\* a turn is opened after a tool turn of two calls, one answered by a
\* result and one by an error description
C29_Witness ==
  /\ TurnOpened
  /\ Len(conversationHistory) = Len(CallerMessages) + 3
  /\ Len(LastMessage.content) > 0
  /\ \E i \in 1..Len(outcomes) : outcomes[i].kind = "returned"
  /\ \E i \in 1..Len(outcomes) : outcomes[i].kind # "returned"

(***************************************************************************)
(* The merge of tool-call deltas                                           *)
(***************************************************************************)
\* the last text of texts that is not empty, "" when there is none
LastNonEmpty(texts) ==
  LET some == SelectSeq(texts, LAMBDA t : t # "")
  IN IF some = <<>> THEN "" ELSE some[Len(some)]

IdSeq(idx) == [i \in 1..Len(DeltasOf(idx)) |-> DeltasOf(idx)[i].id]
NameSeq(idx) == [i \in 1..Len(DeltasOf(idx)) |-> DeltasOf(idx)[i].name]

\* the indexes of the deltas of the chunk a step delivers
Arriving ==
  IF Len(delivered') > Len(delivered)
  THEN LET ds == DeltasOfChunks(<< delivered'[Len(delivered')] >>)
       IN {ds[i].index : i \in 1..Len(ds)}
  ELSE {}

\* C30: the entry of an index holds the last non-empty id and the last
\* non-empty name delivered for it; no step empties an id or a name or takes
\* anything off the end of the arguments; and a step changes the entries of
\* the arriving deltas' indexes only
C30_MergeKeepsValues ==
  /\ [](\A p \in 1..Len(toolCallsBuffer) :
          /\ toolCallsBuffer[p].id = LastNonEmpty(IdSeq(toolCallsBuffer[p].index))
          /\ toolCallsBuffer[p].name = LastNonEmpty(NameSeq(toolCallsBuffer[p].index)))
  /\ [][\A p \in 1..Len(toolCallsBuffer) :
          /\ p <= Len(toolCallsBuffer')
          /\ toolCallsBuffer'[p].index = toolCallsBuffer[p].index
          /\ toolCallsBuffer[p].id # "" => toolCallsBuffer'[p].id # ""
          /\ toolCallsBuffer[p].name # "" => toolCallsBuffer'[p].name # ""
          /\ \E rest \in {"", "{", "}"} :
               toolCallsBuffer'[p].arguments = toolCallsBuffer[p].arguments \o rest
          /\ toolCallsBuffer[p].index \notin Arriving
               => toolCallsBuffer'[p] = toolCallsBuffer[p]]_vars

\* index 0 got the id c1, then the id c2, then a delta with neither id nor
\* name nor arguments, and holds c2
C30_Witness ==
  /\ Len(DeltasOf(0)) = 3
  /\ IdSeq(0) = << "c1", "c2", "" >>
  /\ DeltasOf(0)[3].arguments = ""
  /\ DeltasOf(0)[1].arguments = "{"
  /\ \E p \in 1..Len(toolCallsBuffer) :
       /\ toolCallsBuffer[p].index = 0
       /\ toolCallsBuffer[p].id = "c2"
       /\ toolCallsBuffer[p].arguments = "{"

(***************************************************************************)
(* ChatAPI.chat                                                            *)
(***************************************************************************)
Answered == api.pc = "done"
SseHeaders == {"Content-Type: text/event-stream", "Cache-Control: no-cache",
               "Connection: keep-alive"}
NothingStreamed ==
  /\ api.headers \cap SseHeaders = {}
  /\ api.written = <<>>
  /\ ~api.started

\* C28: an invalid body is answered 400 'Invalid request' whether or not the
\* LLM is configured; a valid body with an unconfigured LLM is answered 503;
\* in both cases no SSE header is set, nothing is streamed and the
\* orchestrator is not started; the stream is opened only otherwise, and a
\* run that completes is followed by the [DONE] frame and the end of the
\* response
C28_ValidationOrder ==
  /\ (Answered /\ api.body \in InvalidBodies)
       => api.statusCode = 400 /\ api.json = "Invalid request" /\ NothingStreamed
  /\ (Answered /\ api.body \in ValidBodies /\ ~api.configured)
       => api.statusCode = 503 /\ NothingStreamed
  /\ ~NothingStreamed
       => /\ api.body \in ValidBodies
          /\ api.configured
          /\ api.started
          /\ SseHeaders \subseteq api.headers
          /\ api.statusCode = 200
  /\ api.run = "completed"
       => /\ api.ended
          /\ api.written[Len(api.written)] = "data: [DONE]\n\n"
          /\ \A i \in 1..(Len(api.written) - 1) : api.written[i] # "data: [DONE]\n\n"

\* an invalid body met an unconfigured LLM and was answered 400
C28_Witness ==
  /\ Answered
  /\ api.body = Obj(<< Field("messages", Str("invalid")) >>)
  /\ ~api.configured
  /\ api.statusCode = 400

\* the status of the entry the map holds for a server, "absent" if none
StatusOf(m, serverId) ==
  IF MapGet(m.entries, serverId) = NoRef THEN "absent"
  ELSE m.conns[MapGet(m.entries, serverId)].status

\* the calls of a method for a server among those the last step settled
SettledCalls(m, op, serverId) ==
  { i \in 1..Len(m.settled) : m.settled[i].op = op /\ m.settled[i].id = serverId }

\* C22: a step that calls the service while a server's entry is connected or
\* connecting creates no connection object for that server and leaves the
\* map entry and its object as they were, and every connectServer call for
\* the server settled in the step is resolved; so a connected server is
\* still connected after the call.
C22_SecondConnectChangesNothing ==
  [][\A id \in Servers :
       (/\ mcp'.made = mcp.made + 1
        /\ StatusOf(mcp, id) \in {"connected", "connecting"})
       => /\ \A r \in DOMAIN mcp'.conns \ DOMAIN mcp.conns : r[1] # id
          /\ \A c \in 1..Len(mcp'.calls) :
               (mcp'.calls[c].op = "connectServer" /\ mcp'.calls[c].id = id)
               => \E d \in 1..Len(mcp.calls) : mcp.calls[d] = mcp'.calls[c]
          /\ MapGet(mcp'.entries, id) = MapGet(mcp.entries, id)
          /\ mcp'.conns[MapGet(mcp.entries, id)] = mcp.conns[MapGet(mcp.entries, id)]
          /\ \A i \in SettledCalls(mcp', "connectServer", id) :
               mcp'.settled[i].state = "resolved"
          /\ isServerConnected(mcp.conns, mcp.entries, id)
             => isServerConnected(mcp'.conns, mcp'.entries, id)]_vars

\* a connectServer call for a connected server has just returned at once
C22_Witness ==
  \E i \in SettledCalls(mcp, "connectServer", "s1") :
    /\ mcp.settled[i].state = "resolved"
    /\ mcp.settled[i].short
    /\ mcp.settled[i].seen.connected

\* the calls the last step settled, and those it left pending
AllCalls(m) == m.calls \o m.settled

\* C24: a step in which a connectServer call rejects, other than the step
\* that calls initialize and so connectServer for the other servers too,
\* leaves the status, the error and the tools of every other server as
\* they were; the step that
\* calls initialize calls connectServer for every enabled server; and
\* initialize settles resolved, and only once none of its calls is pending.
C24_FailuresAreIsolated ==
  [][/\ \A id \in Servers :
          (/\ mcp.made # 0
           /\ \E i \in SettledCalls(mcp', "connectServer", id) :
                mcp'.settled[i].state = "rejected")
          => \A other \in Servers \ {id} :
               /\ StatusOf(mcp', other) = StatusOf(mcp, other)
               /\ getServerStatus(mcp'.conns, mcp'.entries, other)
                    = getServerStatus(mcp.conns, mcp.entries, other)
               /\ getToolsByServer(mcp'.conns, mcp'.entries, other)
                    = getToolsByServer(mcp.conns, mcp.entries, other)
     /\ \A i \in 1..Len(AllCalls(mcp')) :
          (AllCalls(mcp')[i].op = "initialize" /\ mcp.made = 0)
          => \A k \in 1..Len(AllCalls(mcp')[i].enabled) :
               \E j \in 1..Len(AllCalls(mcp')) :
                 /\ AllCalls(mcp')[j].op = "connectServer"
                 /\ AllCalls(mcp')[j].parent = "initialize"
                 /\ AllCalls(mcp')[j].id = AllCalls(mcp')[i].enabled[k]
     /\ \A i \in 1..Len(mcp'.settled) :
          mcp'.settled[i].op = "initialize"
          => /\ mcp'.settled[i].state = "resolved"
             /\ \A c \in 1..Len(mcp'.calls) : mcp'.calls[c].parent # "initialize"]_vars

\* initialize has resolved with both servers enabled, s2 having failed to
\* connect after s1 was connected, and s1 is connected with its tools
C24_Witness ==
  /\ \E i \in 1..Len(mcp.settled) :
       /\ mcp.settled[i].op = "initialize"
       /\ mcp.settled[i].enabled = << "s1", "s2" >>
       /\ mcp.settled[i].seen.allTools = DiscoveredTools("s1")
  /\ \E i \in SettledCalls(mcp, "connectServer", "s2") :
       /\ mcp.settled[i].state = "rejected"
       /\ mcp.settled[i].ref # NoRef
  /\ StatusOf(mcp, "s1") = "connected"
  /\ StatusOf(mcp, "s2") = "error"

\* the tools of one server among those getAllTools returns
ToolsOf(m, serverId) ==
  SelectSeq(getAllTools(m.conns, m.entries), LAMBDA t : t.serverId = serverId)

\* the entry of the server is a connection whose process has exited
ProcessGone(m, serverId) ==
  /\ MapGet(m.entries, serverId) # NoRef
  /\ m.conns[MapGet(m.entries, serverId)].process = "exited"

\* C26: in every reachable state getAllTools returns, for each server, the
\* tools the server listed, tagged with its id, if its entry is connected,
\* and none if the entry is connecting, in error or absent; and none for a
\* stdio server whose process has exited after it was connected.
C26_AllToolsAreOfConnected ==
  \A id \in Servers :
    /\ ToolsOf(mcp, id) = IF StatusOf(mcp, id) = "connected"
                          THEN DiscoveredTools(id) ELSE <<>>
    /\ ProcessGone(mcp, id) => ToolsOf(mcp, id) = <<>>

\* what the caller of a disconnectServer call sees when the call completes
DisconnectedSeen(call) ==
  /\ call.state = "resolved"
  /\ ~call.seen.connected
  /\ call.seen.status = Null
  /\ call.seen.tools = <<>>

\* what the caller of shutdown sees when the call completes
ShutDownSeen(call) ==
  /\ call.state = "resolved"
  /\ call.seen.keys = <<>>
  /\ call.seen.allTools = <<>>

\* the step calls disconnectServer from outside for a server without entry
DisconnectsAbsent(m, n, serverId) ==
  /\ n.made = m.made + 1
  /\ StatusOf(m, serverId) = "absent"
  /\ \E i \in SettledCalls(n, "disconnectServer", serverId) : n.settled[i].parent = ""

\* C23: when a disconnectServer call completes, its caller sees the server
\* not connected, without status and without tools; disconnectServer for a
\* server without entry completes in the step that calls it, without error,
\* and changes neither the map nor a connection; when shutdown completes its
\* caller sees an empty map and no tool; and a connectServer call for a
\* server without entry, disconnected before or not, is never answered by
\* the early return: it registers a fresh connection (or rejects).
C23_DisconnectAndShutdown ==
  [][/\ \A i \in 1..Len(mcp'.settled) :
          /\ mcp'.settled[i].op = "disconnectServer" => DisconnectedSeen(mcp'.settled[i])
          /\ mcp'.settled[i].op = "shutdown" => ShutDownSeen(mcp'.settled[i])
     /\ \A id \in Servers :
          DisconnectsAbsent(mcp, mcp', id)
          => /\ mcp'.entries = mcp.entries
             /\ mcp'.conns = mcp.conns
     /\ \A id \in Servers :
          (mcp'.made = mcp.made + 1 /\ StatusOf(mcp, id) = "absent")
          => \A i \in SettledCalls(mcp', "connectServer", id) :
               mcp'.settled[i].state = "rejected"]_vars

\* the connectServer calls the step to n settled rejected after they had
\* registered their connection
FailedRegistered(n) ==
  { i \in 1..Len(n.settled) :
      /\ n.settled[i].op = "connectServer"
      /\ n.settled[i].state = "rejected"
      /\ n.settled[i].ref # NoRef }

\* what the claim says the caller of the failed call sees
ErrorSeen(call) ==
  /\ call.seen.status # Null
  /\ ~call.seen.status.connected
  /\ call.seen.status.error # ""
  /\ ~call.seen.connected

\* a step that calls the service while the entry of the server is in
\* status error does not answer a connectServer call for it by the early
\* return, which resolves
ErrorIsNotShortCircuited(m, n) ==
  \A id \in Servers :
    (n.made = m.made + 1 /\ StatusOf(m, id) = "error")
    => \A i \in SettledCalls(n, "connectServer", id) : n.settled[i].state = "rejected"

\* C25 as stated: when connectServer fails after the entry was registered,
\* the entry stays in the map in status error with the message, the caller
\* sees connected=false with an error and isServerConnected false, and a
\* later connectServer for the id is not short-circuited.
C25_FailureLeavesErrorEntry ==
  [][/\ \A i \in FailedRegistered(mcp') :
          /\ MapGet(mcp'.entries, mcp'.settled[i].id) = mcp'.settled[i].ref
          /\ StatusOf(mcp', mcp'.settled[i].id) = "error"
          /\ ErrorSeen(mcp'.settled[i])
     /\ ErrorIsNotShortCircuited(mcp, mcp')]_vars

\* C25 amended: the same for a failed call whose connection is still the
\* entry the map holds for the id, that is, unless a disconnectServer
\* removed the entry or another connectServer replaced it while the call
\* was pending.
C25_FailureMarksOwnEntry ==
  [][/\ \A i \in FailedRegistered(mcp') :
          MapGet(mcp'.entries, mcp'.settled[i].id) = mcp'.settled[i].ref
          => /\ StatusOf(mcp', mcp'.settled[i].id) = "error"
             /\ mcp'.conns[mcp'.settled[i].ref].error # ""
             /\ ErrorSeen(mcp'.settled[i])
     /\ ErrorIsNotShortCircuited(mcp, mcp')]_vars

\* a connectServer call that registered a second connection for s1 has
\* failed, its connection is still the entry of s1 and its caller sees the error
C25_Witness ==
  \E i \in FailedRegistered(mcp) :
    /\ mcp.settled[i].id = "s1"
    /\ mcp.settled[i].ref = << "s1", 2 >>
    /\ MapGet(mcp.entries, "s1") = << "s1", 2 >>
    /\ ErrorSeen(mcp.settled[i])

(***************************************************************************)
(* The choice of the Y keys                                                *)
(***************************************************************************)
\* the rows of the metric table one of whose patterns matches the text
MetricsOf(text) ==
  { m \in 1..Len(metricPatterns) :
      \E p \in 1..Len(metricPatterns[m].patterns) :
        text \in MatchSet(metricPatterns[m].patterns[p]) }

Least(S) == CHOOSE n \in S : \A k \in S : n <= k

\* the metric asked for: that of the query, and that of the tool name only
\* when the query matches none; 0 when neither matches one
AskedMetric ==
  IF MetricsOf(detector.userQuery) # {} THEN Least(MetricsOf(detector.userQuery))
  ELSE IF MetricsOf(detector.toolName) # {} THEN Least(MetricsOf(detector.toolName))
  ELSE 0

\* the positions, in the filtered keys, of the keys matching the metric asked for
AskedPositions ==
  { i \in 1..Len(detector.filtered) :
      AskedMetric # 0 /\ AskedMetric \in MetricsOf(detector.filtered[i]) }

\* the patterns of the priority list matching one of the filtered keys
PrimaryPatterns ==
  { p \in 1..Len(singleMetricPriority) :
      \E i \in 1..Len(detector.filtered) :
        detector.filtered[i] \in MatchSet(singleMetricPriority[p]) }

\* the position of the key the fallback takes
FallbackPosition ==
  IF PrimaryPatterns = {} THEN 1
  ELSE Least({ i \in 1..Len(detector.filtered) :
                 detector.filtered[i] \in MatchSet(singleMetricPriority[Least(PrimaryPatterns)]) })

\* C31: the Y keys selected are, when a filtered key matches the metric of
\* the query (or, the query matching no metric, that of the tool name), the
\* first one or two such keys in the order of the filtered keys; otherwise
\* the one key that is the first match of the first matching pattern of the
\* priority list, or the first filtered key when no pattern matches.  They
\* are never empty and are all among the filtered keys.
C31_YKeySelection ==
  detector.pc = "selected"
  => /\ Len(detector.yKeys) >= 1
     /\ \A i \in 1..Len(detector.yKeys) :
          \E j \in 1..Len(detector.filtered) : detector.yKeys[i] = detector.filtered[j]
     /\ AskedPositions # {}
        => /\ Len(detector.yKeys) = IF Cardinality(AskedPositions) >= 2 THEN 2 ELSE 1
           /\ detector.yKeys[1] = detector.filtered[Least(AskedPositions)]
           /\ Len(detector.yKeys) = 2
              => detector.yKeys[2]
                   = detector.filtered[Least(AskedPositions \ {Least(AskedPositions)})]
     /\ AskedPositions = {}
        => detector.yKeys = << detector.filtered[FallbackPosition] >>

\* three keys matched the metric of the query and two were selected, the
\* tool name matching no metric
C31_Witness ==
  /\ detector.pc = "selected"
  /\ MetricsOf(detector.toolName) = {}
  /\ Cardinality(AskedPositions) = 3
  /\ Len(detector.yKeys) = 2

(***************************************************************************)
(* The orchestration loop, continued                                       *)
(***************************************************************************)
\* the run ended with a final answer: the last message of the history is an
\* assistant message without tool calls
EndedWithAnswer ==
  /\ Finished
  /\ LastMessage.role = "assistant"
  /\ ~LastMessage.tool_calls.present

\* C32: the safety error event is in the stream only when the loop was left
\* after a 10th turn that still requested tools; a run that ended with a
\* final answer, on whichever of the turns 1 to 10, holds no error event.
C32_SafetyOnlyOnCap ==
  /\ SafetyEvents # {}
     => /\ iteration = MAX_ITERATIONS
        /\ Cardinality(ToolTurnIdx) = MAX_ITERATIONS
  /\ EndedWithAnswer => CountEvents("error") = 0

\* the stream of the turn has ended without throwing, it carried tool-call
\* deltas and every entry they left in the buffer lacks an id or a name
NoCompleteCall ==
  /\ pc # "stream"
  /\ ~TurnThrew
  /\ toolCallsBuffer # <<>>
  /\ \A i \in 1..Len(toolCallsBuffer) :
       toolCallsBuffer[i].id = "" \/ toolCallsBuffer[i].name = ""

\* C33: once the stream of a turn that carried tool-call deltas has ended
\* with no entry having both an id and a name, the assistant message of the
\* turn is the last of the history and has no tool calls, the turn holds no
\* tool_execution_start and no tool_execution_result event, and the next
\* step never opens a model turn.
C33_IncompleteCallsAreFinalAnswer ==
  /\ [](NoCompleteCall
        => /\ finishReason = "tool_calls"
           /\ LastMessage.role = "assistant"
           /\ ~LastMessage.tool_calls.present
           /\ LastMessage.content = contentBuffer
           /\ ~continueLoop
           /\ \A i \in 1..Len(TurnEvents) :
                TurnEvents[i].type \notin {"tool_execution_start", "tool_execution_result"})
  /\ [][NoCompleteCall => pc' # "stream"]_vars

\* a run has finished whose only turn carried a delta without id
C33_Witness ==
  /\ NoCompleteCall
  /\ Finished
  /\ iteration = 1
  /\ \E i \in 1..Len(toolCallsBuffer) : toolCallsBuffer[i].name # ""

\* C34: once the stream of a turn has ended, the tool calls of the turn are
\* those of the indexes that got an id and a name, in the order in which
\* each index appeared first in the stream, and the tool_execution_start
\* events of the turn follow that order: a call at index 1 whose first delta
\* came before the first delta of index 0 is started first.
C34_OrderOfFirstAppearance ==
  (pc # "stream" /\ ~TurnThrew /\ iteration > 0)
  => /\ Len(toolCalls) = Len(ResolvedOrder)
     /\ \A k \in 1..Len(ResolvedOrder) :
          /\ toolCalls[k].id = LastNonEmpty(IdSeq(ResolvedOrder[k]))
          /\ toolCalls[k].name = LastNonEmpty(NameSeq(ResolvedOrder[k]))
     /\ \A k \in 1..Len(TurnStarts) :
          /\ k <= Len(ResolvedOrder)
          /\ TurnStarts[k].toolCallId = LastNonEmpty(IdSeq(ResolvedOrder[k]))

\* index 1 appeared before index 0, and both calls were started, that of
\* index 1 first
C34_Witness ==
  /\ pc # "stream"
  /\ ResolvedOrder = << 1, 0 >>
  /\ Len(TurnStarts) = 2
  /\ TurnStarts[1].toolCallId = "c2"
  /\ TurnStarts[2].toolCallId = "c1"

StartPositions == Positions("tool_execution_start")
ResultPositions == Positions("tool_execution_result")

\* the result events and the tool-role messages whose call has the id
ResultsAfter(i) ==
  {j \in EventsOfType("tool_execution_result") :
     j > i /\ events[j].toolCallId = events[i].toolCallId}
MessagesOf(id) ==
  {m \in 1..Len(conversationHistory) :
     /\ conversationHistory[m].role = "tool"
     /\ conversationHistory[m].tool_call_id = id}

\* a late settlement, of the provider call or of the timer, changes neither
\* the events nor the history
LateSettlementsAreSilent ==
  [][(AbandonedSettles \/ LateTimerFires) =>
       UNCHANGED << events, conversationHistory >>]_vars

\* C35 as stated: once the run is over, every tool_execution_start event has
\* exactly one later tool_execution_result event with its toolCallId and the
\* history exactly one tool-role message with that tool_call_id, and a late
\* provider result or a late timer changes neither events nor history.
C35_OneResultPerId ==
  /\ [](Finished =>
          \A i \in EventsOfType("tool_execution_start") :
            /\ Cardinality(ResultsAfter(i)) = 1
            /\ Cardinality(MessagesOf(events[i].toolCallId)) = 1)
  /\ LateSettlementsAreSilent

\* C35 amended: starts and results alternate, the result after a start has
\* the start's toolCallId, every result comes with one tool-role message of
\* that id, and once the tool calls of a turn are over every start has its
\* result; a late provider result or a late timer changes neither events nor
\* history.
C35_OneResultPerStart ==
  /\ [](/\ Len(ResultPositions) <= Len(StartPositions)
        /\ Len(StartPositions) <= Len(ResultPositions) + 1
        /\ ~InToolPhase => Len(StartPositions) = Len(ResultPositions)
        /\ Len(ToolMessages) = Len(ResultPositions)
        /\ \A k \in 1..Len(ResultPositions) :
             /\ StartPositions[k] < ResultPositions[k]
             /\ k < Len(StartPositions) => ResultPositions[k] < StartPositions[k + 1]
             /\ events[ResultPositions[k]].toolCallId = events[StartPositions[k]].toolCallId
             /\ ToolMessages[k].tool_call_id = events[StartPositions[k]].toolCallId)
  /\ LateSettlementsAreSilent

\* the timer won the race of the first call, the provider's result came
\* later, and the run went on to two more calls
C35_Witness ==
  /\ Finished
  /\ Len(outcomes) >= 3
  /\ outcomes[1].kind = "timeout"
  /\ abandoned = 0
  /\ Len(StartPositions) = Len(outcomes)
  /\ Len(ResultPositions) = Len(outcomes)

DoneEmitted == Len(events) > 0 /\ events[Len(events)].type = "done"

\* C36: with a caller that keeps pulling, model streams that end or fail and
\* timers that fire, every run emits done in the end, also when a provider
\* call never returns.
C36_EventuallyDone == <>DoneEmitted

\* the provider call of the run's last tool call never returned, the timer
\* fired in its place and done was emitted
C36_Witness ==
  /\ DoneEmitted
  /\ abandoned = 1
  /\ Len(outcomes) > 0
  /\ outcomes[Len(outcomes)].kind = "timeout"

(***************************************************************************)
(* connectServer and disconnectServer side by side                         *)
(***************************************************************************)
\* the connectServer calls the last step resolved after a handshake: the
\* object of each has just reached the status connected
JustConnected ==
  {i \in 1..Len(mcp.settled) :
     /\ mcp.settled[i].op = "connectServer"
     /\ mcp.settled[i].state = "resolved"
     /\ ~mcp.settled[i].short}

\* C37: a connection object that reaches the status connected is the object
\* the connections map holds for its server id, and a connected object
\* whose client was not closed is never missing from the map, however the
\* connectServer and disconnectServer calls of one id interleave.  Stated
\* for the service whose process listeners are not set, so that the calls
\* alone change the map and its objects.
C37_ConnectedIsMapEntry ==
  ~mcp.exposes =>
    /\ \A i \in JustConnected :
         MapGet(mcp.entries, mcp.settled[i].id) = mcp.settled[i].ref
    /\ \A r \in DOMAIN mcp.conns :
         (mcp.conns[r].status = "connected" /\ ~mcp.conns[r].closed)
           => MapGet(mcp.entries, mcp.conns[r].serverId) = r

(***************************************************************************)
(* The tools of a run and the servers behind them                          *)
(***************************************************************************)
\* the tool of the call is one of the run's tools, its arguments parse, and
\* its server is not connected now
ServerDown(tc) ==
  LET tool == FindTool(Tools, tc.name)
  IN /\ tool.found
     /\ JsonParses(tc.arguments)
     /\ \/ tool.serverId \notin DOMAIN connections
        \/ connections[tool.serverId] # "connected"

\* what executeTool says of a server that is gone or not connected
DownMessages ==
  {"MCP server " \o s \o " not found" : s \in {"s1", "s2"}}
  \cup {"MCP server '" \o s \o "' is not connected (status: error)" : s \in {"s1", "s2"}}

\* C38: the run keeps the tools it was given: a call to a tool whose server
\* went down meanwhile is still resolved, is not dispatched, and ends with a
\* tool_execution_result with isError = TRUE and a tool-role message with
\* the server's error; no error event comes of it and the loop goes on to
\* the next call or the next model turn.
C38_DownServerFailsTheCallOnly ==
  /\ [](/\ \A k \in 1..Completed :
             outcomes[k].kind = "not_connected" =>
               /\ ResultEvents[k].isError
               /\ ResultEvents[k].toolCallId = outcomes[k].id
               /\ ToolMessages[k].tool_call_id = outcomes[k].id
               /\ \E m \in DownMessages :
                    ToolMessages[k].content
                      = "Error executing " \o ResultEvents[k].toolName \o ": " \o m
        /\ CountEvents("error") = Cardinality(StreamErrorEvents) + Cardinality(SafetyEvents)
        /\ NextTurnOpened)
  /\ [][(pc = "exec" /\ pc' # "exec" /\ ServerDown(toolCalls[toolIdx])) =>
          /\ dispatches' = dispatches
          /\ outcomes' = Append(outcomes, [id |-> toolCalls[toolIdx].id,
                                           kind |-> "not_connected"])
          /\ events' = Append(events, ToolErrorEvent(toolCalls[toolIdx]))
          /\ pc' = AfterToolPc(toolIdx, Len(toolCalls))]_vars

\* a call to t1 was answered by its server, the server was removed, the next
\* call to t1 failed, and a further model turn was opened
C38_Witness ==
  /\ Len(outcomes) >= 2
  /\ outcomes[1].kind = "returned"
  /\ outcomes[2].kind = "not_connected"
  /\ "s1" \notin DOMAIN connections
  /\ Len(ResultEvents) >= 2
  /\ ResultEvents[2].isError
  /\ iteration >= 3
  /\ CountEvents("error") = 0

(***************************************************************************)
(* The chart descriptors                                                   *)
(***************************************************************************)
\* the charts of every call made to the detector
EmittedCharts ==
  UNION { { detector.calls[c][j] : j \in 1..Len(detector.calls[c]) } :
          c \in 1..Len(detector.calls) }

ToSet(seq) == {seq[i] : i \in 1..Len(seq)}

C40_AreaOrBar ==
  \A chart \in EmittedCharts :
    /\ chart.type = (IF Test(datePattern, chart.config.xKey) THEN "area" ELSE "bar")
    /\ chart.type # "line"

\* a bar chart over the X key name
C40_Witness ==
  \E chart \in EmittedCharts :
    /\ chart.type = "bar"
    /\ chart.config.xKey = "name"

====
